---- MODULE Spec2Model ----
(***************************************************************************)
(* Decision engine of server/engines/decision-engine.ts: the condition     *)
(* language (Tokenizer, Parser, Evaluator) and the DecisionEngine object   *)
(* (rule index, dirty flag, cached rule list, per-rule metrics).           *)
(*                                                                         *)
(* Strings are TLA+ strings read character by character with SubSeq, and   *)
(* positions are 1-based: position p here is index p - 1 in the source.    *)
(* JavaScript values are tagged records (see "VALUES").  Numbers are       *)
(* integers: the numerals of the modelled conditions and contexts carry no *)
(* fractional digits other than zeros, and rule confidences are held in    *)
(* hundredths (80 stands for 0.8).  The copilot router that shares one     *)
(* engine and the task scheduler connector of the client have sections of  *)
(* their own.                                                              *)
(***************************************************************************)
EXTENDS Integers, Sequences, FiniteSets, TLC

(***************************************************************************)
(* CHARACTERS                                                              *)
(***************************************************************************)

\* F applied to the value of v: v is computed once, whatever the number of its
\* uses in F
Let(v, F(_)) == CHOOSE r \in {F(x) : x \in {v}} : TRUE

\* input[p], "" past either end (JavaScript's undefined for a missing index)
Ch(s, p) == IF p >= 1 /\ p <= Len(s) THEN SubSeq(s, p, p) ELSE ""

\* input.substr(from) for a 1-based from
Rest(s, p) == IF p > Len(s) THEN "" ELSE SubSeq(s, p, Len(s))

Digits == {"0", "1", "2", "3", "4", "5", "6", "7", "8", "9"}

LowerCase ==
  {"a", "b", "c", "d", "e", "f", "g", "h", "i", "j", "k", "l", "m",
   "n", "o", "p", "q", "r", "s", "t", "u", "v", "w", "x", "y", "z"}

UpperCase ==
  {"A", "B", "C", "D", "E", "F", "G", "H", "I", "J", "K", "L", "M",
   "N", "O", "P", "Q", "R", "S", "T", "U", "V", "W", "X", "Y", "Z"}

\* /\s/ over the characters the modelled strings are written in
Whitespace == {" ", "\t", "\n", "\r"}

\* /\w/
WordChars == LowerCase \cup UpperCase \cup Digits \cup {"_"}

isDigit(char) == char \in Digits

isAlpha(char) == char \in (LowerCase \cup UpperCase)

isAlphaNumeric(char) == char \in (LowerCase \cup UpperCase \cup Digits)

\* this.input.substr(this.pos, str.length) === str
match(input, pos, str) ==
  /\ pos + Len(str) - 1 <= Len(input)
  /\ SubSeq(input, pos, pos + Len(str) - 1) = str

RECURSIVE skipWhitespace(_, _)
skipWhitespace(input, pos) ==
  IF pos <= Len(input) /\ Ch(input, pos) \in Whitespace
    THEN skipWhitespace(input, pos + 1)
    ELSE pos

RECURSIVE TrimEnd(_)
TrimEnd(s) ==
  IF Len(s) > 0 /\ Ch(s, Len(s)) \in Whitespace
    THEN Let(SubSeq(s, 1, Len(s) - 1), LAMBDA front : TrimEnd(front))
    ELSE s

\* String.prototype.trim
trim(s) == Let(Rest(s, skipWhitespace(s, 1)), LAMBDA tail : TrimEnd(tail))

\* The end (exclusive) of the longest run of characters of class at pos
RECURSIVE RunEnd(_, _, _)
RunEnd(input, pos, class) ==
  IF pos <= Len(input) /\ Ch(input, pos) \in class
    THEN RunEnd(input, pos + 1, class)
    ELSE pos

(***************************************************************************)
(* VALUES                                                                  *)
(* A JavaScript value is a record tagged by t: undefined, number (v an     *)
(* integer), NaN, string, boolean, object (f maps property names to        *)
(* values) and array (e the elements).  Objects and arrays carry the       *)
(* identity id that === compares.                                          *)
(***************************************************************************)

Undef == [t |-> "undefined"]

NaN == [t |-> "NaN"]

Num(n) == [t |-> "number", v |-> n]

Str(s) == [t |-> "string", v |-> s]

Bool(b) == [t |-> "boolean", v |-> b]

Obj(id, fields) == [t |-> "object", id |-> id, f |-> fields]

Arr(id, elems) == [t |-> "array", id |-> id, e |-> elems]

DigitChar(d) == SubSeq("0123456789", d + 1, d + 1)

DigitVal(c) == CHOOSE d \in 0..9 : DigitChar(d) = c

\* Number.prototype.toString of a non-negative integer
RECURSIVE NatToString(_)
NatToString(n) ==
  IF n < 10 THEN DigitChar(n)
  ELSE Let(n \div 10, LAMBDA tens : NatToString(tens)) \o DigitChar(n % 10)

\* Number.prototype.toString of an integer
IntToString(n) == IF n < 0 THEN "-" \o NatToString(0 - n) ELSE NatToString(n)

\* The value of the digits of s in 1..(end - 1), read from position pos on
RECURSIVE DigitsValue(_, _, _, _)
DigitsValue(s, pos, end, acc) ==
  IF pos >= end THEN acc
  ELSE DigitsValue(s, pos + 1, end, acc * 10 + DigitVal(Ch(s, pos)))

\* parseFloat of the text the number scan collects (digits and dots, a digit
\* first): the longest decimal prefix, whose fraction is zero in this model.
parseFloat(value) == DigitsValue(value, 1, RunEnd(value, 1, Digits), 0)

\* Whether s (no sign, no blanks) is a decimal numeral: digits with at most one
\* dot and at least one digit.
IsDecimalNumeral(s) ==
  LET intEnd == RunEnd(s, 1, Digits)
      fracEnd == IF Ch(s, intEnd) = "." THEN RunEnd(s, intEnd + 1, Digits) ELSE intEnd
  IN /\ Len(s) > 0
     /\ fracEnd = Len(s) + 1
     /\ (intEnd > 1 \/ fracEnd > intEnd + 1)

\* Number(text) of a text without blanks around it: blank text is 0, a signed decimal numeral is its value, any
\* other text is NaN.  (Exponent, hexadecimal and Infinity spellings do not
\* occur in the modelled strings.)
NumberOfTrimmed(s) ==
  LET signed == Ch(s, 1) \in {"+", "-"}
      body == IF signed THEN Rest(s, 2) ELSE s
      magnitude == DigitsValue(body, 1, RunEnd(body, 1, Digits), 0)
  IN IF s = "" THEN Num(0)
     ELSE IF IsDecimalNumeral(body)
       THEN Num(IF Ch(s, 1) = "-" THEN 0 - magnitude ELSE magnitude)
       ELSE NaN

\* Number(text)
NumberOfString(text) == Let(trim(text), LAMBDA s : NumberOfTrimmed(s))

(***************************************************************************)
(* TOKENIZER                                                               *)
(***************************************************************************)

Token(type, value) == [type |-> type, value |-> value]

BytesPerMB == 1048576

BytesPerKB == 1024

MsPerMin == 60000

MsPerSecond == 1000

\* The string branch: the characters up to the closing quote, which is skipped;
\* without a closing quote the scan takes the rest of the input.
stringToken(input, pos) ==
  Let(RunEnd(input, pos + 1, {Ch(input, p) : p \in 1..Len(input)} \ {Ch(input, pos)}),
      LAMBDA close :
        [pos |-> close + 1,
         emit |-> <<Token("VALUE",
                          IF close > pos + 1 THEN SubSeq(input, pos + 1, close - 1) ELSE "")>>])

\* numberAt converting minutes to seconds, not to milliseconds
numberAtInSeconds(input, pos, end) ==
  LET value == SubSeq(input, pos, end - 1)
  IN IF match(input, end, "MB")
       THEN [pos |-> end + 2,
             emit |-> <<Token("VALUE", IntToString(parseFloat(value) * BytesPerMB))>>]
     ELSE IF match(input, end, "KB")
       THEN [pos |-> end + 2,
             emit |-> <<Token("VALUE", IntToString(parseFloat(value) * BytesPerKB))>>]
     ELSE IF match(input, end, "min")
       THEN [pos |-> end + 3,
             emit |-> <<Token("VALUE", IntToString(parseFloat(value) * 60))>>]
     ELSE IF match(input, end, "s")
       THEN [pos |-> end + 1,
             emit |-> <<Token("VALUE", IntToString(parseFloat(value) * MsPerSecond))>>]
     ELSE [pos |-> end, emit |-> <<Token("VALUE", value)>>]

\* The number branch once its scan of digits and dots has stopped at end: an
\* optional unit scales the parsed number.
numberAt(input, pos, end) ==
  LET value == SubSeq(input, pos, end - 1)
  IN IF match(input, end, "MB")
       THEN [pos |-> end + 2,
             emit |-> <<Token("VALUE", IntToString(parseFloat(value) * BytesPerMB))>>]
     ELSE IF match(input, end, "KB")
       THEN [pos |-> end + 2,
             emit |-> <<Token("VALUE", IntToString(parseFloat(value) * BytesPerKB))>>]
     ELSE IF match(input, end, "min")
       THEN [pos |-> end + 3,
             emit |-> <<Token("VALUE", IntToString(parseFloat(value) * MsPerMin))>>]
     ELSE IF match(input, end, "s")
       THEN [pos |-> end + 1,
             emit |-> <<Token("VALUE", IntToString(parseFloat(value) * MsPerSecond))>>]
     ELSE [pos |-> end, emit |-> <<Token("VALUE", value)>>]

\* The number branch
numberToken(input, pos) ==
  Let(RunEnd(input, pos, Digits \cup {"."}), LAMBDA end : numberAt(input, pos, end))

\* The path branch: letters, digits, "_" and "."
pathToken(input, pos) ==
  Let(RunEnd(input, pos, LowerCase \cup UpperCase \cup Digits \cup {"_", "."}),
      LAMBDA end : [pos |-> end, emit |-> <<Token("PATH", SubSeq(input, pos, end - 1))>>])

\* tokenizeAt leaving this.pos where it is on a character no branch takes
tokenizeAtStuck(input, pos) ==
  LET char == Ch(input, pos)
  IN IF pos > Len(input) THEN [pos |-> pos, emit |-> <<>>]
     ELSE IF char = "(" \/ char = ")"
       THEN [pos |-> pos + 1, emit |-> <<Token("PAREN", char)>>]
     ELSE IF match(input, pos, "AND") \/ match(input, pos, "and")
       THEN [pos |-> pos + 3, emit |-> <<Token("LOGICAL", "and")>>]
     ELSE IF match(input, pos, "OR") \/ match(input, pos, "or")
       THEN [pos |-> pos + 2, emit |-> <<Token("LOGICAL", "or")>>]
     ELSE IF match(input, pos, "==")
       THEN [pos |-> pos + 2, emit |-> <<Token("OPERATOR", "==")>>]
     ELSE IF match(input, pos, "!=")
       THEN [pos |-> pos + 2, emit |-> <<Token("OPERATOR", "!=")>>]
     ELSE IF match(input, pos, ">=")
       THEN [pos |-> pos + 2, emit |-> <<Token("OPERATOR", ">=")>>]
     ELSE IF match(input, pos, "<=")
       THEN [pos |-> pos + 2, emit |-> <<Token("OPERATOR", "<=")>>]
     ELSE IF match(input, pos, "in")
       THEN [pos |-> pos + 2, emit |-> <<Token("OPERATOR", "in")>>]
     ELSE IF char = ">" \/ char = "<"
       THEN [pos |-> pos + 1, emit |-> <<Token("OPERATOR", char)>>]
     ELSE IF char = "\"" \/ char = "'" THEN stringToken(input, pos)
     ELSE IF isDigit(char) THEN numberToken(input, pos)
     ELSE IF isAlpha(char) THEN pathToken(input, pos)
     ELSE [pos |-> pos, emit |-> <<>>]

\* One iteration of the loop of tokenize after its skipWhitespace(), which left
\* this.pos = pos
tokenizeAt(input, pos) ==
  LET char == Ch(input, pos)
  IN IF pos > Len(input) THEN [pos |-> pos, emit |-> <<>>]
     ELSE IF char = "(" \/ char = ")"
       THEN [pos |-> pos + 1, emit |-> <<Token("PAREN", char)>>]
     ELSE IF match(input, pos, "AND") \/ match(input, pos, "and")
       THEN [pos |-> pos + 3, emit |-> <<Token("LOGICAL", "and")>>]
     ELSE IF match(input, pos, "OR") \/ match(input, pos, "or")
       THEN [pos |-> pos + 2, emit |-> <<Token("LOGICAL", "or")>>]
     ELSE IF match(input, pos, "==")
       THEN [pos |-> pos + 2, emit |-> <<Token("OPERATOR", "==")>>]
     ELSE IF match(input, pos, "!=")
       THEN [pos |-> pos + 2, emit |-> <<Token("OPERATOR", "!=")>>]
     ELSE IF match(input, pos, ">=")
       THEN [pos |-> pos + 2, emit |-> <<Token("OPERATOR", ">=")>>]
     ELSE IF match(input, pos, "<=")
       THEN [pos |-> pos + 2, emit |-> <<Token("OPERATOR", "<=")>>]
     ELSE IF match(input, pos, "in")
       THEN [pos |-> pos + 2, emit |-> <<Token("OPERATOR", "in")>>]
     ELSE IF char = ">" \/ char = "<"
       THEN [pos |-> pos + 1, emit |-> <<Token("OPERATOR", char)>>]
     ELSE IF char = "\"" \/ char = "'" THEN stringToken(input, pos)
     ELSE IF isDigit(char) THEN numberToken(input, pos)
     ELSE IF isAlpha(char) THEN pathToken(input, pos)
     ELSE [pos |-> pos + 1, emit |-> <<>>]

\* One iteration of the loop of tokenize, entered with this.pos = pos0 inside the
\* input: the position it leaves and the tokens it pushes.
tokenizeStep(input, pos0) ==
  Let(skipWhitespace(input, pos0), LAMBDA pos : tokenizeAt(input, pos))

RECURSIVE tokenizeFrom(_, _, _)
tokenizeFrom(input, pos, tokens) ==
  IF pos > Len(input) THEN tokens
  ELSE Let(tokenizeStep(input, pos),
           LAMBDA step : Let(tokens \o step.emit,
                             LAMBDA pushed : tokenizeFrom(input, step.pos, pushed)))

\* new Tokenizer(condition).tokenize()
tokenize(condition) == Let(trim(condition), LAMBDA input : tokenizeFrom(input, 1, <<>>))

(***************************************************************************)
(* PARSER                                                                  *)
(* A parse function returns Parsed(node, pos), the node and the position   *)
(* this.pos it leaves, or Thrown(message) when it throws.                  *)
(***************************************************************************)

BinaryOp(operator, left, right) ==
  [type |-> "BinaryOp", operator |-> operator, left |-> left, right |-> right]

Literal(value) == [type |-> "Literal", value |-> value]

Identifier(name) == [type |-> "Identifier", name |-> name]

Parsed(node, pos) == [ok |-> TRUE, node |-> node, pos |-> pos]

Thrown(message) == [ok |-> FALSE, error |-> message]

\* What current() returns past the end of the tokens: undefined, whose ?.type
\* and ?.value equal no token's.
NoToken == [type |-> "undefined", value |-> "undefined", none |-> TRUE]

current(tokens, pos) == IF pos >= 1 /\ pos <= Len(tokens) THEN tokens[pos] ELSE NoToken

IsToken(token) == "none" \notin DOMAIN token

RECURSIVE parseOr(_, _), parseOrLoop(_, _, _), parseAnd(_, _), parseAndLoop(_, _, _)
RECURSIVE parseComparison(_, _), parsePrimary(_, _)

parseOr(tokens, pos) ==
  Let(parseAnd(tokens, pos),
      LAMBDA left : IF left.ok THEN parseOrLoop(tokens, left.node, left.pos) ELSE left)

\* parseOrLoop grouping to the right: what follows an 'or' is parsed as one Or
parseOrLoopToTheRight(tokens, left, pos) ==
  IF IsToken(current(tokens, pos)) /\ current(tokens, pos).type = "LOGICAL"
       /\ current(tokens, pos).value = "or"
    THEN Let(parseOr(tokens, pos + 1),
             LAMBDA right :
               IF right.ok THEN Parsed(BinaryOp("or", left, right.node), right.pos)
               ELSE right)
    ELSE Parsed(left, pos)

\* The while loop of parseOr
parseOrLoop(tokens, left, pos) ==
  IF IsToken(current(tokens, pos)) /\ current(tokens, pos).type = "LOGICAL"
       /\ current(tokens, pos).value = "or"
    THEN Let(parseAnd(tokens, pos + 1),
             LAMBDA right :
               IF right.ok
                 THEN Let(BinaryOp("or", left, right.node),
                          LAMBDA node : parseOrLoop(tokens, node, right.pos))
                 ELSE right)
    ELSE Parsed(left, pos)

parseAnd(tokens, pos) ==
  Let(parseComparison(tokens, pos),
      LAMBDA left : IF left.ok THEN parseAndLoop(tokens, left.node, left.pos) ELSE left)

\* The while loop of parseAnd
parseAndLoop(tokens, left, pos) ==
  IF IsToken(current(tokens, pos)) /\ current(tokens, pos).type = "LOGICAL"
       /\ current(tokens, pos).value = "and"
    THEN Let(parseComparison(tokens, pos + 1),
             LAMBDA right :
               IF right.ok
                 THEN Let(BinaryOp("and", left, right.node),
                          LAMBDA node : parseAndLoop(tokens, node, right.pos))
                 ELSE right)
    ELSE Parsed(left, pos)

parseComparison(tokens, pos) ==
  Let(parsePrimary(tokens, pos),
      LAMBDA left :
        IF ~left.ok THEN left
        ELSE IF IsToken(current(tokens, left.pos)) /\ current(tokens, left.pos).type = "OPERATOR"
          THEN Let(parsePrimary(tokens, left.pos + 1),
                   LAMBDA right :
                     IF right.ok
                       THEN Parsed(BinaryOp(current(tokens, left.pos).value,
                                            left.node, right.node),
                                   right.pos)
                       ELSE right)
          ELSE left)

parsePrimary(tokens, pos) ==
  LET token == current(tokens, pos)
  IN IF ~IsToken(token) THEN Thrown("Unexpected end of input")
     ELSE IF token.type = "PATH" THEN Parsed(Identifier(token.value), pos + 1)
     ELSE IF token.type = "PAREN" /\ token.value = "("
       THEN Let(parseOr(tokens, pos + 1),
                LAMBDA expr :
                  IF ~expr.ok THEN expr
                  ELSE IF ~(/\ IsToken(current(tokens, expr.pos))
                            /\ current(tokens, expr.pos).value = ")")
                    THEN Thrown("Expected closing parenthesis")
                    ELSE Parsed(expr.node, expr.pos + 1))
     ELSE IF token.type = "VALUE"
       THEN Let(NumberOfString(token.value),
                LAMBDA num :
                  IF num.t # "NaN"
                    THEN Parsed(Literal(num), pos + 1)
                    ELSE Parsed(Literal(Str(token.value)), pos + 1))
     ELSE Thrown("Unexpected token: " \o token.value)

\* new Parser(tokens).parse()
parse(tokens) == parseOr(tokens, 1)

(***************************************************************************)
(* EVALUATOR                                                               *)
(* An evaluation returns Returned(value) or Thrown(message).               *)
(***************************************************************************)

Returned(value) == [ok |-> TRUE, value |-> value]

\* Boolean(value)
ToBoolean(value) ==
  CASE value.t = "undefined" -> FALSE
    [] value.t = "NaN" -> FALSE
    [] value.t = "number" -> value.v # 0
    [] value.t = "string" -> value.v # ""
    [] value.t = "boolean" -> value.v
    [] OTHER -> TRUE

\* String(value); an array joins the strings of its elements with ","
RECURSIVE StringOf(_), JoinFrom(_, _)
StringOf(value) ==
  CASE value.t = "undefined" -> "undefined"
    [] value.t = "NaN" -> "NaN"
    [] value.t = "number" -> IntToString(value.v)
    [] value.t = "string" -> value.v
    [] value.t = "boolean" -> IF value.v THEN "true" ELSE "false"
    [] value.t = "array" -> JoinFrom(value.e, 1)
    [] OTHER -> "[object Object]"

JoinFrom(elems, i) ==
  IF i > Len(elems) THEN ""
  ELSE (IF elems[i].t = "undefined" THEN "" ELSE StringOf(elems[i]))
         \o (IF i < Len(elems) THEN "," ELSE "")
         \o JoinFrom(elems, i + 1)

\* Number(value)
ToNumber(value) ==
  CASE value.t = "undefined" -> NaN
    [] value.t = "NaN" -> NaN
    [] value.t = "number" -> value
    [] value.t = "string" -> NumberOfString(value.v)
    [] value.t = "boolean" -> Num(IF value.v THEN 1 ELSE 0)
    [] value.t = "array" -> NumberOfString(StringOf(value))
    [] OTHER -> NaN

\* left === right
StrictEquals(left, right) ==
  /\ left.t = right.t
  /\ CASE left.t = "undefined" -> TRUE
       [] left.t = "NaN" -> FALSE
       [] left.t \in {"object", "array"} -> left.id = right.id
       [] OTHER -> left.v = right.v

\* The equality of Array.prototype.includes, under which NaN equals NaN
SameValueZero(left, right) ==
  StrictEquals(left, right) \/ (left.t = "NaN" /\ right.t = "NaN")

\* A comparison of two numbers is false as soon as one of them is NaN
NumbersCompare(operator, left, right) ==
  /\ left.t = "number"
  /\ right.t = "number"
  /\ CASE operator = ">" -> left.v > right.v
       [] operator = "<" -> left.v < right.v
       [] operator = ">=" -> left.v >= right.v
       [] operator = "<=" -> left.v <= right.v

\* path.split('.')
RECURSIVE split(_)
split(path) ==
  LET end == RunEnd(path, 1, {Ch(path, p) : p \in 1..Len(path)} \ {"."})
      head == IF end > 1 THEN SubSeq(path, 1, end - 1) ELSE ""
  IN IF end > Len(path) THEN <<head>>
     ELSE <<head>> \o Let(Rest(path, end + 1), LAMBDA tail : split(tail))

\* current[part] of an object or an array.  (Properties inherited from the
\* prototypes are not among the modelled path segments.)
Property(value, part) ==
  IF value.t = "object"
    THEN IF part \in DOMAIN value.f THEN value.f[part] ELSE Undef
  ELSE IF part = "length" THEN Num(Len(value.e))
  ELSE IF \E i \in 1..Len(value.e) : IntToString(i - 1) = part
    THEN value.e[CHOOSE i \in 1..Len(value.e) : IntToString(i - 1) = part]
    ELSE Undef

RECURSIVE WalkPath(_, _, _)
WalkPath(parts, i, cur) ==
  IF i > Len(parts) THEN cur
  ELSE IF cur.t \in {"object", "array"}
    THEN Let(Property(cur, parts[i]), LAMBDA member : WalkPath(parts, i + 1, member))
    ELSE Undef

\* getValueFromContext(path, context); path is the string Str(..) or, read off a
\* node that has no such property, undefined, and undefined.split throws.
getValueFromContext(path, context) ==
  IF path.t = "undefined"
    THEN Thrown("Cannot read properties of undefined (reading 'split')")
    ELSE Returned(Let(split(path.v), LAMBDA parts : WalkPath(parts, 1, context)))

\* (node as Identifier).name
NameOf(node) == IF node.type = "Identifier" THEN Str(node.name) ELSE Undef

\* (node as Literal).value
ValueOf(node) == IF node.type = "Literal" THEN node.value ELSE Undef

RECURSIVE evaluate(_, _)
evaluate(node, context) ==
  IF node.type = "Literal" THEN Returned(ToBoolean(node.value))
  ELSE IF node.type = "Identifier"
    THEN Returned(ToBoolean(getValueFromContext(Str(node.name), context).value))
  ELSE IF node.type = "BinaryOp"
    THEN LET leftLookup == getValueFromContext(NameOf(node.left), context)
             rightLookup == getValueFromContext(NameOf(node.right), context)
             left == leftLookup.value
             right == IF ToBoolean(rightLookup.value)
                        THEN rightLookup.value
                        ELSE ValueOf(node.right)
         IN IF ~leftLookup.ok THEN leftLookup
            ELSE IF ~rightLookup.ok THEN rightLookup
            ELSE CASE node.operator = "==" -> Returned(StrictEquals(left, right))
                   [] node.operator = "!=" -> Returned(~StrictEquals(left, right))
                   [] node.operator \in {">", "<", ">=", "<="} ->
                        Returned(NumbersCompare(node.operator, ToNumber(left), ToNumber(right)))
                   [] node.operator = "in" ->
                        Returned(/\ right.t = "array"
                                 /\ \E i \in 1..Len(right.e) : SameValueZero(right.e[i], left))
                   [] node.operator = "and" ->
                        Let(evaluate(node.left, context),
                            LAMBDA l : IF ~l.ok \/ ~l.value THEN l
                                       ELSE evaluate(node.right, context))
                   [] node.operator = "or" ->
                        Let(evaluate(node.left, context),
                            LAMBDA l : IF ~l.ok \/ l.value THEN l
                                       ELSE evaluate(node.right, context))
                   [] OTHER -> Returned(FALSE)
  ELSE Returned(FALSE)

(***************************************************************************)
(* INPUTS                                                                  *)
(***************************************************************************)

\* The rule definitions the callers draw from.  The first leaves tokens after
\* its expression, the third compares with a literal.
RulePool ==
  <<[id |-> "r1", condition |-> "flag action.type == 'delete'", confidence |-> 50],
    [id |-> "r2", condition |-> "flag", confidence |-> 80],
    [id |-> "r3", condition |-> "x > 5", confidence |-> 90]>>

PoolConditions == {RulePool[i].condition : i \in 1..Len(RulePool)}

\* Rules for the index alone: one indexed under two keys, one indexed twice
\* under one key, one with no index term
IndexPool ==
  <<[id |-> "i1", condition |-> "action.type=='rm' and file.extension=='.ts'",
     confidence |-> 50],
    [id |-> "i2", condition |-> "action.type=='rm' or action.type=='rm'",
     confidence |-> 80],
    [id |-> "i3", condition |-> "flag", confidence |-> 90]>>

\* The condition of the decision scenarios
ScenarioCondition == "action.type == 'delete' or file.size > 1048576"

\* The rule definitions evaluated one by one: the scenarios' condition, a
\* comparison with a literal, a comparison of two paths, an unclosed
\* parenthesis and a single path
EvalPool ==
  <<[id |-> "e1", condition |-> ScenarioCondition, confidence |-> 80],
    [id |-> "e2", condition |-> "x > 5", confidence |-> 80],
    [id |-> "e3", condition |-> "x > y", confidence |-> 80],
    [id |-> "e4", condition |-> "(x > 5", confidence |-> 80],
    [id |-> "e5", condition |-> "flag", confidence |-> 80]>>

\* Conditions whose parentheses do not balance
UnbalancedConditions == {"(x > 5", "x > 5)", "((x > 5)", "(x > 5))", "(x", "x)"}

\* Conditions that go on after a complete expression: a chained comparison,
\* operands in a row
LeftoverConditions == {"a > b > c", "a > b c", "x > 5 5", "x y", "(x) y"}

\* Conditions derived from the grammar
\*   Or := And ('or' And)*              And := Comparison ('and' Comparison)*
\*   Comparison := Primary (Operator Primary)?
\*   Primary := Identifier | Literal | '(' Or ')'
GrammarPrimaries == {"x", "order", "5"}

GrammarOperators == {">", "=="}

GrammarComparisons ==
  GrammarPrimaries
    \cup {p \o " " \o op \o " " \o q :
            p \in GrammarPrimaries, op \in GrammarOperators, q \in GrammarPrimaries}

GrammarGroups == {"(" \o c \o ")" : c \in GrammarComparisons}

GrammarOperands == {"x > 5", "(x > 5)", "(y < 10)", "order"}

GrammarAnds ==
  {c \o " " \o kw \o " " \o d :
     c \in GrammarOperands, kw \in {"and", "AND"}, d \in GrammarOperands}

GrammarOrs ==
  {c \o " " \o kw \o " " \o d :
     c \in {"x > 5", "x and y"}, kw \in {"or", "OR"}, d \in {"(y < 10)", "y and x"}}

GrammarConditions ==
  GrammarComparisons \cup GrammarGroups \cup GrammarAnds \cup GrammarOrs

\* The largest numeral tokenized with each unit
MaxNumeral == 12

\* The unit suffixes of numbers, "" for none
UnitSuffixes == {"", "MB", "KB", "min", "s"}

NumeralInputs == {NatToString(n) \o suffix : n \in 0..MaxNumeral, suffix \in UnitSuffixes}

\* The spellings of the connectives in every letter case
AndSpellings == {a \o n \o d : a \in {"a", "A"}, n \in {"n", "N"}, d \in {"d", "D"}}

OrSpellings == {o \o r : o \in {"o", "O"}, r \in {"r", "R"}}

ConnectiveInputs == {"a " \o kw \o " b" : kw \in AndSpellings \cup OrSpellings}

\* Inputs with characters no branch of the tokenizer takes, with quoted
\* strings that are not closed, blank or empty
UnterminatedInputs == {"'abc", "x == 'ab c", "\"q", "y in \"a'b", "x @ 'ab"}

OddInputs ==
  {"", "  ", "x @ y", "#", "!x", "= =", "a.b >= 10KB and (c in 'd')",
   "5.5.5s < 7 min", "x == \"a'b\" or not_z"}

\* Conditions of three operands under 'and', 'or' and parentheses
PrecedenceInputs ==
  {"a or b and c", "a and b or c", "a or b or c", "a and b and c",
   "(a or b) and c", "a and (b or c)"}

\* The inputs of the tokenizer followed iteration by iteration
LoopInputs ==
  UnterminatedInputs \cup OddInputs \cup PrecedenceInputs \cup UnbalancedConditions
    \cup LeftoverConditions

\* The inputs of the tokenizer and of the parser taken alone
ParserInputs == NumeralInputs \cup ConnectiveInputs \cup PrecedenceInputs

EvalPoolConditions == {EvalPool[i].condition : i \in 1..Len(EvalPool)}

EvalConditions ==
  EvalPoolConditions \cup UnbalancedConditions \cup GrammarConditions \cup LeftoverConditions

(***************************************************************************)
(* RULE INDEX                                                              *)
(* A Rule is a record [id, name, condition, behavior, category, priority,  *)
(* confidence, active].  A Map is a function whose domain is its key set.  *)
(***************************************************************************)

Quotes == {"'", "\""}

\* One attempt of a regular expression of extractIndexTerms at position i:
\* [ok |-> TRUE, end |-> the position after the match, group |-> its group 1]
\* or [ok |-> FALSE].  Every quantifier of the four expressions is followed by a
\* character outside its class, so the longest run is the only candidate.
NoMatch == [ok |-> FALSE]

\* lead \s*==\s*['"](prefix \w+)['"] with lead "action.type" or "file.extension"
equalsQuotedAt(s, i, lead, prefix) ==
  LET afterLead == i + Len(lead)
      eq == skipWhitespace(s, afterLead)
      open == skipWhitespace(s, eq + 2)
      word == open + 1 + Len(prefix)
      close == RunEnd(s, word, WordChars)
  IN IF /\ match(s, i, lead)
        /\ match(s, eq, "==")
        /\ Ch(s, open) \in Quotes
        /\ match(s, open + 1, prefix)
        /\ close > word
        /\ Ch(s, close) \in Quotes
       THEN [ok |-> TRUE, end |-> close + 1, group |-> SubSeq(s, open + 1, close - 1)]
       ELSE NoMatch

\* /action\.type\s*==\s*['"](\w+)['"]/
actionTypeRegex(s, i) == equalsQuotedAt(s, i, "action.type", "")

\* /file\.extension\s*==\s*['"](\.\w+)['"]/
extensionSingleRegex(s, i) == equalsQuotedAt(s, i, "file.extension", ".")

\* /file\.extension\s+in\s+\[(.*?)\]/ : the group runs to the first "]" and
\* holds no line terminator
extensionArrayRegex(s, i) ==
  LET ws1 == i + Len("file.extension")
      in == skipWhitespace(s, ws1)
      ws2 == in + 2
      bracket == skipWhitespace(s, ws2)
      close == RunEnd(s, bracket + 1, {Ch(s, p) : p \in 1..Len(s)} \ {"]", "\n", "\r"})
  IN IF /\ match(s, i, "file.extension")
        /\ in > ws1
        /\ match(s, in, "in")
        /\ bracket > ws2
        /\ Ch(s, bracket) = "["
        /\ Ch(s, close) = "]"
       THEN [ok |-> TRUE, end |-> close + 1,
             group |-> IF close > bracket + 1 THEN SubSeq(s, bracket + 1, close - 1) ELSE ""]
       ELSE NoMatch

\* /file\.path\.includes\(['"](\w+)['"]\)/
pathRegex(s, i) ==
  LET open == i + Len("file.path.includes(")
      close == RunEnd(s, open + 1, WordChars)
  IN IF /\ match(s, i, "file.path.includes(")
        /\ Ch(s, open) \in Quotes
        /\ close > open + 1
        /\ Ch(s, close) \in Quotes
        /\ Ch(s, close + 1) = ")"
       THEN [ok |-> TRUE, end |-> close + 2, group |-> SubSeq(s, open + 1, close - 1)]
       ELSE NoMatch

regexAt(regex, s, i) ==
  CASE regex = "actionType" -> actionTypeRegex(s, i)
    [] regex = "extensionSingle" -> extensionSingleRegex(s, i)
    [] regex = "extensionArray" -> extensionArrayRegex(s, i)
    [] regex = "path" -> pathRegex(s, i)

\* while ((match = regex.exec(condition)) !== null): the groups of the
\* successive matches of a /g expression, each search resuming where the last
\* match ended
RECURSIVE execAll(_, _, _)
execAll(regex, s, i) ==
  IF i > Len(s) THEN <<>>
  ELSE Let(regexAt(regex, s, i),
           LAMBDA m : IF m.ok THEN <<m.group>> \o execAll(regex, s, m.end)
                      ELSE execAll(regex, s, i + 1))

\* s.split(',')
RECURSIVE splitComma(_)
splitComma(s) ==
  LET end == RunEnd(s, 1, {Ch(s, p) : p \in 1..Len(s)} \ {","})
      head == IF end > 1 THEN SubSeq(s, 1, end - 1) ELSE ""
  IN IF end > Len(s) THEN <<head>>
     ELSE <<head>> \o Let(Rest(s, end + 1), LAMBDA tail : splitComma(tail))

\* s.replace(/['"]/g, '')
RECURSIVE removeQuotes(_)
removeQuotes(s) ==
  IF s = "" THEN ""
  ELSE (IF Ch(s, 1) \in Quotes THEN "" ELSE Ch(s, 1))
         \o Let(Rest(s, 2), LAMBDA tail : removeQuotes(tail))

\* match[1].split(',').map(s => s.trim().replace(/['"]/g, '')).filter(s => s.startsWith('.'))
RECURSIVE extensionsOf(_, _)
extensionsOf(parts, i) ==
  IF i > Len(parts) THEN <<>>
  ELSE Let(removeQuotes(trim(parts[i])),
           LAMBDA ext : IF Ch(ext, 1) = "." THEN <<ext>> ELSE <<>>)
         \o extensionsOf(parts, i + 1)

RECURSIVE extensionsOfGroups(_, _)
extensionsOfGroups(groups, i) ==
  IF i > Len(groups) THEN <<>>
  ELSE Let(splitComma(groups[i]), LAMBDA parts : extensionsOf(parts, 1))
         \o extensionsOfGroups(groups, i + 1)

indexTermsOf(condition) ==
  [actionTypes |-> execAll("actionType", condition, 1),
   fileExtensions |-> execAll("extensionSingle", condition, 1)
                        \o Let(execAll("extensionArray", condition, 1),
                               LAMBDA groups : extensionsOfGroups(groups, 1)),
   filePaths |-> execAll("path", condition, 1)]

\* The conditions of the rules the callers pass (see RulePool and
\* EvalConditions), tokenized, parsed and scanned once each
KnownConditions == PoolConditions \cup EvalConditions

ParsedConditions ==
  [condition \in KnownConditions |-> Let(tokenize(condition), LAMBDA tokens : parse(tokens))]

RuleConditions ==
  PoolConditions \cup EvalPoolConditions \cup {IndexPool[i].condition : i \in 1..Len(IndexPool)}

IndexTerms == [condition \in RuleConditions |-> indexTermsOf(condition)]

\* new Parser(new Tokenizer(condition).tokenize()).parse()
parseCondition(condition) ==
  IF condition \in KnownConditions
    THEN ParsedConditions[condition]
    ELSE Let(tokenize(condition), LAMBDA tokens : parse(tokens))

extractIndexTerms(condition) ==
  IF condition \in RuleConditions
    THEN IndexTerms[condition]
    ELSE indexTermsOf(condition)

EmptyMap == [key \in {} |-> <<>>]

EmptyIndex ==
  [byActionType |-> EmptyMap, byFileExtension |-> EmptyMap,
   byCategory |-> EmptyMap, global |-> <<>>]

\* if (!map.has(key)) map.set(key, []); map.get(key).push(rule)
pushTo(map, key, rule) ==
  IF key \in DOMAIN map
    THEN [map EXCEPT ![key] = Append(@, rule)]
    ELSE [k \in DOMAIN map \cup {key} |-> IF k = key THEN <<rule>> ELSE map[k]]

\* keys.forEach(key => push rule under key)
RECURSIVE pushAll(_, _, _, _)
pushAll(map, keys, i, rule) ==
  IF i > Len(keys) THEN map
  ELSE Let(pushTo(map, keys[i], rule), LAMBDA pushed : pushAll(pushed, keys, i + 1, rule))

\* indexRuleBy without the skip of inactive rules
indexRuleByInactiveToo(index, rule, terms) ==
  LET hasSpecificTerms == Len(terms.actionTypes) > 0 \/ Len(terms.fileExtensions) > 0
  IN [byActionType |-> pushAll(index.byActionType, terms.actionTypes, 1, rule),
      byFileExtension |-> pushAll(index.byFileExtension, terms.fileExtensions, 1, rule),
      byCategory |-> IF rule.category # ""
                       THEN pushTo(index.byCategory, rule.category, rule)
                       ELSE index.byCategory,
      global |-> IF hasSpecificTerms THEN index.global ELSE Append(index.global, rule)]

\* The body of the loop of rebuildIndex for one rule, terms being the index
\* terms of its condition
indexRuleBy(index, rule, terms) ==
  LET hasSpecificTerms == Len(terms.actionTypes) > 0 \/ Len(terms.fileExtensions) > 0
  IN IF ~rule.active THEN index
     ELSE [byActionType |-> pushAll(index.byActionType, terms.actionTypes, 1, rule),
           byFileExtension |-> pushAll(index.byFileExtension, terms.fileExtensions, 1, rule),
           byCategory |-> IF rule.category # ""
                            THEN pushTo(index.byCategory, rule.category, rule)
                            ELSE index.byCategory,
           global |-> IF hasSpecificTerms THEN index.global ELSE Append(index.global, rule)]

\* The body of the loop of rebuildIndex for one rule
indexRule(index, rule) ==
  Let(extractIndexTerms(rule.condition), LAMBDA terms : indexRuleBy(index, rule, terms))

RECURSIVE indexRules(_, _, _)
indexRules(index, rules, i) ==
  IF i > Len(rules) THEN index
  ELSE Let(indexRule(index, rules[i]), LAMBDA indexed : indexRules(indexed, rules, i + 1))

\* rebuildIndex(rules): the new ruleIndex (cachedRules becomes rules and
\* indexDirty false, see the action RebuildIndex)
rebuildIndex(rules) == indexRules(EmptyIndex, rules, 1)

\* addAll into an array, which keeps every insertion
RECURSIVE addAllRepeated(_, _, _)
addAllRepeated(candidates, bucket, i) ==
  IF i > Len(bucket) THEN candidates
  ELSE Let(Append(candidates, bucket[i]),
           LAMBDA added : addAllRepeated(added, bucket, i + 1))

\* candidates.add(r) for each r of bucket: a Set keeps the first insertion
RECURSIVE addAll(_, _, _)
addAll(candidates, bucket, i) ==
  IF i > Len(bucket) THEN candidates
  ELSE Let(IF \E j \in 1..Len(candidates) : candidates[j] = bucket[i]
             THEN candidates
             ELSE Append(candidates, bucket[i]),
           LAMBDA added : addAll(added, bucket, i + 1))

\* value?.part and value.part of a value that may be a primitive
Member(value, part) == IF value.t \in {"object", "array"} THEN Property(value, part) ELSE Undef

\* The lookups of getCandidateRules in an index (after its rebuild, if any)
candidatesIn(index, context) ==
  LET actionType == Member(Member(context, "action"), "type")
      extension == Member(Member(context, "file"), "extension")
      byAction == IF ToBoolean(actionType) /\ StringOf(actionType) \in DOMAIN index.byActionType
                    THEN index.byActionType[StringOf(actionType)]
                    ELSE <<>>
      byExt == IF ToBoolean(extension) /\ StringOf(extension) \in DOMAIN index.byFileExtension
                 THEN index.byFileExtension[StringOf(extension)]
                 ELSE <<>>
  IN Let(addAll(<<>>, byAction, 1),
         LAMBDA first : Let(addAll(first, byExt, 1),
                            LAMBDA second : addAll(second, index.global, 1)))

\* getCandidateRules(context) on an engine whose fields are index, dirty and
\* cached: the fields it leaves and the candidates it returns
getCandidateRules(index, dirty, cached, context) ==
  LET rebuilt == dirty /\ Len(cached) > 0
  IN Let(IF rebuilt THEN rebuildIndex(cached) ELSE index,
         LAMBDA index1 :
           [ruleIndex |-> index1,
            indexDirty |-> IF rebuilt THEN FALSE ELSE dirty,
            cachedRules |-> cached,
            candidates |-> candidatesIn(index1, context)])

(***************************************************************************)
(* METRICS                                                                 *)
(***************************************************************************)

\* The length past which recordMetrics shifts executionTimes
ExecutionTimesCap == 100

\* The sum of the numbers of seq from position i on
RECURSIVE SumSeq(_, _)
SumSeq(seq, i) == IF i > Len(seq) THEN 0 ELSE seq[i] + SumSeq(seq, i + 1)

\* recordMetrics counting a match whatever matched is
recordMetricsAlwaysMatched(map, ruleId, executionTime, matched, time) ==
  LET m == IF ruleId \in DOMAIN map THEN map[ruleId]
           ELSE [ruleId |-> ruleId, evaluations |-> 0, matches |-> 0,
                 executionTimes |-> <<>>, lastUsed |-> time]
      times == Append(m.executionTimes, executionTime)
      m1 == [ruleId |-> m.ruleId,
             evaluations |-> m.evaluations + 1,
             matches |-> m.matches + 1,
             executionTimes |-> IF Len(times) > ExecutionTimesCap THEN Tail(times) ELSE times,
             lastUsed |-> time]
  IN [id \in DOMAIN map \cup {ruleId} |-> IF id = ruleId THEN m1 ELSE map[id]]

\* recordMetrics dropping the sample just pushed when the buffer is full
recordMetricsKeepingOldest(map, ruleId, executionTime, matched, time) ==
  LET m == IF ruleId \in DOMAIN map THEN map[ruleId]
           ELSE [ruleId |-> ruleId, evaluations |-> 0, matches |-> 0,
                 executionTimes |-> <<>>, lastUsed |-> time]
      times == Append(m.executionTimes, executionTime)
      m1 == [ruleId |-> m.ruleId,
             evaluations |-> m.evaluations + 1,
             matches |-> IF matched THEN m.matches + 1 ELSE m.matches,
             executionTimes |-> IF Len(times) > ExecutionTimesCap
                                  THEN SubSeq(times, 1, Len(times) - 1) ELSE times,
             lastUsed |-> time]
  IN [id \in DOMAIN map \cup {ruleId} |-> IF id = ruleId THEN m1 ELSE map[id]]

\* recordMetrics(ruleId, executionTime, matched) at Date.now() = time: the new
\* metrics map
recordMetrics(map, ruleId, executionTime, matched, time) ==
  LET m == IF ruleId \in DOMAIN map THEN map[ruleId]
           ELSE [ruleId |-> ruleId, evaluations |-> 0, matches |-> 0,
                 executionTimes |-> <<>>, lastUsed |-> time]
      times == Append(m.executionTimes, executionTime)
      m1 == [ruleId |-> m.ruleId,
             evaluations |-> m.evaluations + 1,
             matches |-> IF matched THEN m.matches + 1 ELSE m.matches,
             executionTimes |-> IF Len(times) > ExecutionTimesCap THEN Tail(times) ELSE times,
             lastUsed |-> time]
  IN [id \in DOMAIN map \cup {ruleId} |-> IF id = ruleId THEN m1 ELSE map[id]]

\* clearOldMetrics keeping only the entries used after now - maxAge
clearOldMetricsAtTheEdge(map, maxAge, time) ==
  [id \in {k \in DOMAIN map : ~(time - map[k].lastUsed >= maxAge)} |-> map[id]]

\* clearOldMetrics(maxAge) at Date.now() = time: the new metrics map
clearOldMetrics(map, maxAge, time) ==
  [id \in {k \in DOMAIN map : ~(time - map[k].lastUsed > maxAge)} |-> map[id]]

\* allMetrics.flatMap(m => m.executionTimes) over the entries ids: the samples
\* of all the rules in one array.  The Map gives them in the order its
\* entries were set; the sort that follows makes the order immaterial.
RECURSIVE flatTimes(_, _)
flatTimes(map, ids) ==
  IF ids = {} THEN <<>>
  ELSE Let(CHOOSE k \in ids : TRUE,
           LAMBDA id : map[id].executionTimes
                         \o Let(ids \ {id}, LAMBDA others : flatTimes(map, others)))

\* allTimes left in the order of flatMap
sortNumbersUnsorted(times) == times

\* times.sort((a, b) => a - b) of numbers: the same samples, ascending
sortNumbers(times) ==
  Let([v \in {times[j] : j \in 1..Len(times)} |->
         Cardinality({j \in 1..Len(times) : times[j] <= v})],
      LAMBDA upTo :
        [i \in 1..Len(times) |->
           CHOOSE v \in DOMAIN upTo :
             i <= upTo[v] /\ \A w \in DOMAIN upTo : w < v => upTo[w] < i])

\* percentile(p) with p = hundredths / 100: sortedTimes[Math.floor(length * p)] || 0
percentile(sortedTimes, hundredths) ==
  LET index == (Len(sortedTimes) * hundredths) \div 100
  IN IF index + 1 \in DOMAIN sortedTimes /\ sortedTimes[index + 1] # 0
       THEN sortedTimes[index + 1] ELSE 0

\* A quotient a / b of the code, kept as its two terms
Quotient(a, b) == [dividend |-> a, divisor |-> b]

\* The sums of the reduce calls of getSystemMetrics over the entries ids
RECURSIVE sumOf(_, _, _)
sumOf(map, ids, field) ==
  IF ids = {} THEN 0
  ELSE Let(CHOOSE k \in ids : TRUE,
           LAMBDA id : (IF field = "evaluations" THEN map[id].evaluations ELSE map[id].matches)
                         + Let(ids \ {id}, LAMBDA others : sumOf(map, others, field)))

\* getSystemMetrics()
getSystemMetrics(map) ==
  IF DOMAIN map = {}
    THEN [totalRules |-> 0, totalEvaluations |-> 0, totalMatches |-> 0,
          avgMatchRate |-> 0, avgExecutionTime |-> 0,
          p50ExecutionTime |-> 0, p95ExecutionTime |-> 0, p99ExecutionTime |-> 0]
    ELSE Let(flatTimes(map, DOMAIN map),
           LAMBDA allTimes :
             Let(sortNumbers(allTimes),
               LAMBDA sortedTimes :
                 [totalRules |-> Cardinality(DOMAIN map),
                  totalEvaluations |-> sumOf(map, DOMAIN map, "evaluations"),
                  totalMatches |-> sumOf(map, DOMAIN map, "matches"),
                  avgMatchRate |-> Quotient(sumOf(map, DOMAIN map, "matches"),
                                            sumOf(map, DOMAIN map, "evaluations")),
                  avgExecutionTime |-> Quotient(SumSeq(allTimes, 1), Len(allTimes)),
                  p50ExecutionTime |-> percentile(sortedTimes, 50),
                  p95ExecutionTime |-> percentile(sortedTimes, 95),
                  p99ExecutionTime |-> percentile(sortedTimes, 99)]))

(***************************************************************************)
(* DECISION ENGINE                                                         *)
(***************************************************************************)



\* The try block of evaluateRule up to evaluate(): Returned(matched) or Thrown
runPipeline(rule, context) ==
  Let(parseCondition(rule.condition),
      LAMBDA ast : IF ast.ok THEN evaluate(ast.node, context) ELSE ast)

\* The DecisionResult of evaluateRule
DecisionResult(rule, matched, confidence, reasoning, executionTime, time) ==
  [ruleId |-> rule.id,
   ruleName |-> rule.name,
   matched |-> matched,
   confidence |-> confidence,
   behavior |-> rule.behavior,
   reasoning |-> reasoning,
   timestamp |-> time,
   executionTime |-> executionTime]

\* The reasoning of a rule that was evaluated
Evaluated(rule, matched) ==
  "Regla evaluada: " \o rule.name \o ". Condición: " \o rule.condition
    \o ". Resultado: " \o (IF matched THEN "COINCIDE" ELSE "NO COINCIDE")

\* evaluateRuleOn without its catch block: the exception leaves the call
evaluateRuleOnUncaught(run, map, rule, context, executionTime, time) ==
  IF run.ok
    THEN [outcome |-> "returned",
          metrics |-> recordMetrics(map, rule.id, executionTime, run.value, time),
          result |-> DecisionResult(rule, run.value, rule.confidence,
                                    Evaluated(rule, run.value), executionTime, time)]
    ELSE [outcome |-> "thrown", metrics |-> map, result |-> [error |-> run.error]]

\* evaluateRuleOn answering from the metrics: a rule that has matched before
\* matches again, whatever the context
evaluateRuleOnRemembered(run, map, rule, context, executionTime, time) ==
  LET matched == run.ok /\ (run.value \/ (rule.id \in DOMAIN map /\ map[rule.id].matches > 0))
  IN IF run.ok
       THEN [outcome |-> "returned",
             metrics |-> recordMetrics(map, rule.id, executionTime, matched, time),
             result |-> DecisionResult(rule, matched, rule.confidence,
                                       Evaluated(rule, matched), executionTime, time)]
       ELSE [outcome |-> "returned",
             metrics |-> map,
             result |-> DecisionResult(rule, FALSE, 0, "Error al evaluar regla: " \o run.error,
                                       executionTime, time)]

\* evaluateRule after its pipeline has ended as run, Returned(matched) or
\* Thrown(message): the try block from recordMetrics on, or the catch block.
\* outcome says how the call leaves: "returned" with result, or "thrown".
evaluateRuleOn(run, map, rule, context, executionTime, time) ==
  IF run.ok
    THEN [outcome |-> "returned",
          metrics |-> recordMetrics(map, rule.id, executionTime, run.value, time),
          result |-> DecisionResult(rule, run.value, rule.confidence,
                                    Evaluated(rule, run.value), executionTime, time)]
    ELSE [outcome |-> "returned",
          metrics |-> map,
          result |-> DecisionResult(rule, FALSE, 0, "Error al evaluar regla: " \o run.error,
                                    executionTime, time)]

\* evaluateRule(rule, context), its two performance.now() readings executionTime
\* apart and Date.now() = time, on an engine whose metrics are map
evaluateRule(map, rule, context, executionTime, time) ==
  Let(runPipeline(rule, context),
      LAMBDA run : evaluateRuleOn(run, map, rule, context, executionTime, time))

\* validateCondition(condition)
validateCondition(condition) ==
  Let(parseCondition(condition),
      LAMBDA ast : IF ast.ok THEN [valid |-> TRUE] ELSE [valid |-> FALSE, error |-> ast.error])

\* rules.filter(r => r.active)
RECURSIVE filterActive(_, _)
filterActive(rules, i) ==
  IF i > Len(rules) THEN <<>>
  ELSE (IF rules[i].active THEN <<rules[i]>> ELSE <<>>) \o filterActive(rules, i + 1)

\* .map(rule => this.evaluateRule(rule, context)): the calls in order, the i-th
\* taking times[i]; the metrics they leave and their results
RECURSIVE evaluateEach(_, _, _, _, _, _)
evaluateEach(map, rules, i, context, times, time) ==
  IF i > Len(rules) THEN [metrics |-> map, results |-> <<>>]
  ELSE Let(evaluateRule(map, rules[i], context, times[i], time),
           LAMBDA call :
             Let(evaluateEach(call.metrics, rules, i + 1, context, times, time),
                 LAMBDA rest : [metrics |-> rest.metrics,
                                results |-> <<call.result>> \o rest.results]))

\* .filter(r => r.matched)
RECURSIVE filterMatched(_, _)
filterMatched(results, i) ==
  IF i > Len(results) THEN <<>>
  ELSE (IF results[i].matched THEN <<results[i]>> ELSE <<>>) \o filterMatched(results, i + 1)

\* sortByConfidence with the sort left out
sortByConfidenceUnsorted(results) == results

\* .sort((a, b) => b.confidence - a.confidence): a stable sort, here by insertion
RECURSIVE insertByConfidence(_, _), sortByConfidence(_)
insertByConfidence(sorted, r) ==
  IF sorted = <<>> THEN <<r>>
  ELSE IF Head(sorted).confidence >= r.confidence
    THEN <<Head(sorted)>> \o Let(Tail(sorted), LAMBDA tail : insertByConfidence(tail, r))
    ELSE <<r>> \o sorted

sortByConfidence(results) ==
  IF results = <<>> THEN <<>>
  ELSE Let(SubSeq(results, 1, Len(results) - 1),
           LAMBDA front : Let(sortByConfidence(front),
                              LAMBDA sorted : insertByConfidence(sorted, results[Len(results)])))

\* ((1 - candidates / total) * 100).toFixed(1) + '%': one decimal, the half
\* rounded away from zero; a division by zero gives NaN or -Infinity
indexEfficiency(candidates, total) ==
  IF total = 0 THEN (IF candidates = 0 THEN "NaN%" ELSE "-Infinity%")
  ELSE LET thousandths == 1000 * (total - candidates)
           magnitude == IF thousandths < 0 THEN 0 - thousandths ELSE thousandths
           tenths == (2 * magnitude + total) \div (2 * total)
       IN (IF thousandths < 0 THEN "-" ELSE "") \o NatToString(tenths \div 10)
            \o "." \o DigitChar(tenths % 10) \o "%"

\* topMatches: results.slice(0, 5)
topMatches(results) == SubSeq(results, 1, IF Len(results) < 5 THEN Len(results) ELSE 5)

\* evaluationStats counting the active rules passed as the candidates
evaluationStatsOfActive(rules, candidates, results, evaluationTime) ==
  [totalRules |-> Len(rules),
   activeRules |-> Len(filterActive(rules, 1)),
   candidateRules |-> Len(filterActive(rules, 1)),
   matchedRules |-> Len(results),
   evaluationTime |-> evaluationTime,
   indexEfficiency |-> indexEfficiency(Len(filterActive(rules, 1)), Len(rules)),
   topMatches |-> topMatches(results)]

\* The stats object of evaluateRules
evaluationStats(rules, candidates, results, evaluationTime) ==
  [totalRules |-> Len(rules),
   activeRules |-> Len(filterActive(rules, 1)),
   candidateRules |-> Len(candidates),
   matchedRules |-> Len(results),
   evaluationTime |-> evaluationTime,
   indexEfficiency |-> indexEfficiency(Len(candidates), Len(rules)),
   topMatches |-> topMatches(results)]

\* evaluateRules(rules, context) on an engine whose fields are index, dirty,
\* cached and map; times[i] is the duration of its i-th evaluateRule call.  The
\* fields it leaves, the candidates it fetched and what it returns.
evaluateRules(index, dirty, cached, map, rules, context, times, time) ==
  Let(getCandidateRules(index, dirty, cached, context),
      LAMBDA fetch :
        Let(evaluateEach(map, filterActive(fetch.candidates, 1), 1, context, times, time),
            LAMBDA calls :
              Let(sortByConfidence(filterMatched(calls.results, 1)),
                  LAMBDA results :
                    [ruleIndex |-> fetch.ruleIndex,
                     indexDirty |-> fetch.indexDirty,
                     cachedRules |-> fetch.cachedRules,
                     metrics |-> calls.metrics,
                     candidates |-> fetch.candidates,
                     results |-> results,
                     stats |-> evaluationStats(rules, fetch.candidates, results,
                                               SumSeq(times, 1))])))

(***************************************************************************)
(* THE ENGINE AS A STATE MACHINE                                           *)
(* One DecisionEngine object and its callers.  A caller passes any rule    *)
(* list of RuleLists, any rule of Rules and any context of Contexts.       *)
(***************************************************************************)

\* Bounds of the model
MaxRules == 2

MaxEvaluations == 2

MaxDuration == 1

MaxNow == 1

Rule(id, condition, confidence, active) ==
  [id |-> id, name |-> "Rule " \o id, condition |-> condition, behavior |-> "log",
   category |-> "safety", priority |-> 50, confidence |-> confidence, active |-> active]

PoolSize == IF MaxRules < Len(RulePool) THEN MaxRules ELSE Len(RulePool)

\* The versions of the rule of RulePool[i]
RuleVersions(i) ==
  {Rule(RulePool[i].id, RulePool[i].condition, RulePool[i].confidence, active) :
     active \in BOOLEAN}

Rules == UNION {RuleVersions(i) : i \in 1..Len(RulePool)}

\* The lists of rules of RulePool[i..PoolSize], in the order of the pool, each
\* rule in one of its versions or left out
RECURSIVE ListsFrom(_)
ListsFrom(i) ==
  IF i > PoolSize THEN {<<>>}
  ELSE ListsFrom(i + 1)
         \cup {<<r>> \o rest : r \in RuleVersions(i), rest \in ListsFrom(i + 1)}

\* The rule lists the callers pass: no two rules of a list share an id
RuleLists == ListsFrom(1)

CtxDelete ==
  Obj(1, [flag |-> Bool(TRUE), action |-> Obj(2, [type |-> Str("delete")])])

CtxNoop ==
  Obj(3, [flag |-> Bool(TRUE), action |-> Obj(4, [type |-> Str("noop")])])

CtxPlain == Obj(5, [flag |-> Bool(FALSE), x |-> Num(10)])

Contexts == {CtxDelete, CtxNoop, CtxPlain}

\* The rules evaluated one by one, all of them active
EvalRules ==
  {Rule(EvalPool[i].id, EvalPool[i].condition, EvalPool[i].confidence, TRUE) :
     i \in 1..Len(EvalPool)}

\* {action: {type: 'delete'}}
ScenarioA == Obj(11, [action |-> Obj(12, [type |-> Str("delete")])])

\* {action: {type: 'noop'}, file: {size: 2000000}}
ScenarioB ==
  Obj(13, [action |-> Obj(14, [type |-> Str("noop")]),
           file |-> Obj(15, [size |-> Num(2000000)])])

\* {action: {type: 'noop'}, file: {size: 10}}
ScenarioC ==
  Obj(16, [action |-> Obj(17, [type |-> Str("noop")]), file |-> Obj(18, [size |-> Num(10)])])

\* {x: 10, y: 3}
CtxTen == Obj(19, [x |-> Num(10), y |-> Num(3)])

\* {x: 3, y: 5}
CtxThree == Obj(20, [x |-> Num(3), y |-> Num(5)])

EvalContexts == {ScenarioA, ScenarioB, ScenarioC, CtxTen, CtxThree}

\* The rules and the contexts of the repeated calls
ProbeRules == {r \in Rules : r.active /\ r.id \in {"r2", "r3"}}

ProbeContexts == {CtxDelete, CtxPlain}

ProbeLists == {<<>>} \cup {<<r>> : r \in {q \in Rules : q.id = "r2"}}

\* The rule lists of the bulk evaluations: the first two rules of the pool
BulkLists ==
  {<<>>} \cup {<<a>> : a \in RuleVersions(1)} \cup {<<b>> : b \in RuleVersions(2)}
    \cup {<<a, b>> : a \in RuleVersions(1), b \in RuleVersions(2)}

BulkContexts == {CtxDelete, CtxNoop}

\* The readings of performance.now() differences, in milliseconds
Durations == 1..MaxDuration

\* The rules whose evaluations feed the metrics: "x > y" and "flag"
MetricsRules == {r \in EvalRules : r.id \in {"e3", "e5"}}

\* The most evaluations of one rule, past the cap of its buffer
MaxSamples == 101

\* The evaluations of each rule: one rule is evaluated until its buffer is
\* full and over, the other a few times
SampleLimit(ruleId) == IF ruleId = "e5" THEN MaxSamples ELSE MaxEvaluations

\* The values of maxAge
Ages == 0..MaxNow

\* The lists of the rules of IndexPool, each active, inactive or left out
IndexLists ==
  {SelectSeq(<<Rule(IndexPool[1].id, IndexPool[1].condition, IndexPool[1].confidence, a),
               Rule(IndexPool[2].id, IndexPool[2].condition, IndexPool[2].confidence, b),
               Rule(IndexPool[3].id, IndexPool[3].condition, IndexPool[3].confidence, c)>>,
             LAMBDA rule : rule.id \in ids) :
     a \in BOOLEAN, b \in BOOLEAN, c \in BOOLEAN, ids \in SUBSET {"i1", "i2", "i3"}}

\* {action: {type: 'rm'}, file: {extension: '.ts'}}
CtxRemoveTs ==
  Obj(21, [action |-> Obj(22, [type |-> Str("rm")]),
           file |-> Obj(23, [extension |-> Str(".ts")])])

\* {file: {extension: '.ts'}}
CtxTs == Obj(24, [file |-> Obj(25, [extension |-> Str(".ts")])])

IndexContexts == {CtxRemoveTs, CtxTs, CtxNoop, CtxPlain}

\* The requests the router serves at once
MaxRequests == 2

\* What rules.create is given: the id is the one nanoid() draws
CreateInputs ==
  {[id |-> "r2", condition |-> "flag", confidence |-> 80],
   [id |-> "r2", condition |-> "(x > 5", confidence |-> 80]}

\* The ids and the conditions rules.update, delete and toggle are given
RouterIds == {"r2"}

UpdateConditions == {"x > 5", "(x > 5"}

RouterContexts == {CtxDelete}

(***************************************************************************)
(* TASK SCHEDULER                                                          *)
(* TaskSchedulerMCPConnector of client/src/personalization/plugins/core/   *)
(* task-scheduler-mcp.ts.  The connector is the record of its fields:      *)
(* tasks and jobs are functions from task ids, taskCallbacks is the set of *)
(* the ids with a registered callback.  A ScheduledTask keeps id, name,    *)
(* command, cronExpression, intervalMs, enabled and executionCount;        *)
(* description, args and the two timestamps are read by no method.  A job  *)
(* of node-schedule is [task, rule, serial]: the id its closure calls      *)
(* executeTask with, the rule it was scheduled by, and which scheduleJob   *)
(* call made it.  The runtime is what lies outside the connector: the jobs *)
(* node-schedule still fires (scheduled), how many jobs it was asked for   *)
(* (serial), how many callbacks of each task are at their await            *)
(* (suspended) and the tasks last written to the persistence file (file).  *)
(* A method returns [connector, runtime, response].                        *)
(***************************************************************************)

\* The ids of the tasks
TaskIds == {"t1", "t2"}

\* The jobs node-schedule is asked for
MaxJobs == 2

\* The executions one task object counts
MaxExecutions == 2

\* The executeTask calls whose callbacks are at their await at once
MaxCalls == 2

\* private maxConcurrentTasks: number = 5
DefaultMaxConcurrentTasks == 5

\* The values of config?.maxConcurrentTasks
ConfiguredLimits == {Undef, Num(0), Num(1)}

\* The cron expressions of the tasks, which node-schedule accepts
CronExpressions == {"0 0 * * *"}

\* What scheduleTask is given: t1 by cron, enabled by default and disabled;
\* t2 by interval; a task without a name; a task without a schedule
ScheduleInputs ==
  {[id |-> Str("t1"), name |-> Str("daily"), command |-> Str("shell.execute"),
    cronExpression |-> Str("0 0 * * *"), intervalMs |-> Undef, enabled |-> Undef],
   [id |-> Str("t1"), name |-> Str("daily"), command |-> Str("shell.execute"),
    cronExpression |-> Str("0 0 * * *"), intervalMs |-> Undef, enabled |-> Bool(FALSE)],
   [id |-> Str("t2"), name |-> Str("poll"), command |-> Str("shell.execute"),
    cronExpression |-> Undef, intervalMs |-> Num(60000), enabled |-> Bool(TRUE)],
   [id |-> Str("t2"), name |-> Undef, command |-> Str("shell.execute"),
    cronExpression |-> Undef, intervalMs |-> Num(60000), enabled |-> Undef],
   [id |-> Str("t2"), name |-> Str("poll"), command |-> Str("shell.execute"),
    cronExpression |-> Undef, intervalMs |-> Num(0), enabled |-> Undef]}

\* Map.prototype.set and Map.prototype.delete
mapSet(map, key, value) ==
  [k \in DOMAIN map \cup {key} |-> IF k = key THEN value ELSE map[k]]

mapDelete(map, key) == [k \in DOMAIN map \ {key} |-> map[k]]

\* The fields of a new connector; maxConcurrentTasks is
\* config?.maxConcurrentTasks
TaskSchedulerMCPConnector(maxConcurrentTasks) ==
  [tasks |-> EmptyMap,
   jobs |-> EmptyMap,
   maxConcurrentTasks |-> IF ToBoolean(maxConcurrentTasks)
                            THEN maxConcurrentTasks.v
                            ELSE DefaultMaxConcurrentTasks,
   runningTasks |-> 0,
   taskCallbacks |-> {}]

\* No job asked for, no callback begun, no file written
NoRuntime ==
  [scheduled |-> {}, serial |-> 0, suspended |-> [id \in TaskIds |-> 0], file |-> Undef]

\* The two shapes of an MCPResponse
Success(data) == [success |-> TRUE, data |-> data]

Failure(error) == [success |-> FALSE, error |-> error]

\* persistTasks: the tasks of the map go to the file.  No method of the
\* connector reads the file back, so the write is taken with its call.
persistTasks(c, r) == [r EXCEPT !.file = c.tasks]

\* isValidCronExpression: schedule.scheduleJob throws for none of the
\* expressions of the tasks, and the job it makes is cancelled at once
isValidCronExpression(cron) == cron \in CronExpressions

\* The rule enableTask schedules a task by
jobRule(task) ==
  IF ToBoolean(task.cronExpression)
    THEN task.cronExpression.v
    ELSE "*/" \o NatToString(task.intervalMs.v \div MsPerSecond) \o " * * * * *"

\* What node-schedule fires once enableTask has cancelled the job the map
\* holds for taskId
cancelHeld(c, r, taskId) ==
  IF taskId \in DOMAIN c.jobs THEN r.scheduled \ {c.jobs[taskId]} ELSE r.scheduled

\* enableTask(taskId)
enableTask(c, r, taskId) ==
  IF taskId \notin DOMAIN c.tasks
    THEN [connector |-> c, runtime |-> r,
          response |-> Failure("Tarea no encontrada: " \o taskId)]
  ELSE IF ~ToBoolean(c.tasks[taskId].cronExpression) /\ ~ToBoolean(c.tasks[taskId].intervalMs)
    THEN [connector |-> c,
          runtime |-> [r EXCEPT !.scheduled = cancelHeld(c, r, taskId)],
          response |-> Failure("Configuracion de programacion invalida")]
  ELSE LET job == [task |-> taskId, rule |-> jobRule(c.tasks[taskId]),
                   serial |-> r.serial + 1]
       IN [connector |-> [c EXCEPT !.jobs = mapSet(@, taskId, job),
                                   !.tasks[taskId].enabled = TRUE],
           runtime |-> [r EXCEPT !.scheduled = cancelHeld(c, r, taskId) \cup {job},
                                 !.serial = @ + 1],
           response |-> Success([taskId |-> taskId, enabled |-> TRUE])]

\* scheduleTask from this.tasks.set on, for a task that passed the checks
saveTask(c, r, newTask) ==
  LET saved == [c EXCEPT !.tasks = mapSet(@, newTask.id, newTask)]
      enabled == IF newTask.enabled
                   THEN enableTask(saved, r, newTask.id)
                   ELSE [connector |-> saved, runtime |-> r]
  IN [connector |-> enabled.connector,
      runtime |-> persistTasks(enabled.connector, enabled.runtime),
      response |-> Success(enabled.connector.tasks[newTask.id])]

\* scheduleTask(task)
scheduleTask(c, r, task) ==
  IF ~ToBoolean(task.id) \/ ~ToBoolean(task.name) \/ ~ToBoolean(task.command)
    THEN [connector |-> c, runtime |-> r,
          response |-> Failure("Faltan campos requeridos: id, name, command")]
  ELSE IF ~ToBoolean(task.cronExpression) /\ ~ToBoolean(task.intervalMs)
    THEN [connector |-> c, runtime |-> r,
          response |-> Failure("Se requiere cronExpression o intervalMs")]
  ELSE IF ToBoolean(task.cronExpression) /\ ~isValidCronExpression(task.cronExpression.v)
    THEN [connector |-> c, runtime |-> r,
          response |-> Failure("Expresion cron invalida: " \o task.cronExpression.v)]
  ELSE saveTask(c, r, [id |-> task.id.v, name |-> task.name.v, command |-> task.command.v,
                       cronExpression |-> task.cronExpression,
                       intervalMs |-> task.intervalMs,
                       enabled |-> task.enabled # Bool(FALSE),
                       executionCount |-> 0])

\* disableTask(taskId)
disableTask(c, r, taskId) ==
  IF taskId \notin DOMAIN c.tasks
    THEN [connector |-> c, runtime |-> r,
          response |-> Failure("Tarea no encontrada: " \o taskId)]
  ELSE [connector |-> [c EXCEPT !.jobs = mapDelete(@, taskId),
                                !.tasks[taskId].enabled = FALSE],
        runtime |-> [r EXCEPT !.scheduled = cancelHeld(c, r, taskId)],
        response |-> Success([taskId |-> taskId, enabled |-> FALSE])]

\* cancelTask(taskId)
cancelTask(c, r, taskId) ==
  IF taskId \notin DOMAIN c.tasks
    THEN [connector |-> c, runtime |-> r,
          response |-> Failure("Tarea no encontrada: " \o taskId)]
  ELSE LET cancelled == [c EXCEPT !.jobs = mapDelete(@, taskId),
                                  !.tasks = mapDelete(@, taskId),
                                  !.taskCallbacks = @ \ {taskId}]
       IN [connector |-> cancelled,
           runtime |-> persistTasks(cancelled,
                                    [r EXCEPT !.scheduled = cancelHeld(c, r, taskId)]),
           response |-> Success([taskId |-> taskId, cancelled |-> TRUE])]

\* The limit check of executeTask, with one task more than the limit let in
atLimitOffByOne(c) == c.runningTasks > c.maxConcurrentTasks

\* The limit check of executeTask
atLimit(c) == c.runningTasks >= c.maxConcurrentTasks

\* executeTask(taskId) up to its await callback(task) (awaiting TRUE) or,
\* with no callback registered, to its return
executeTask(c, r, taskId) ==
  IF atLimit(c)
    THEN [connector |-> c, runtime |-> r, awaiting |-> FALSE,
          response |-> Failure("Limite de tareas concurrentes alcanzado ("
                               \o IntToString(c.maxConcurrentTasks) \o ")")]
  ELSE IF taskId \notin DOMAIN c.tasks
    THEN [connector |-> c, runtime |-> r, awaiting |-> FALSE,
          response |-> Failure("Tarea no encontrada: " \o taskId)]
  ELSE LET counted == [c EXCEPT !.runningTasks = @ + 1,
                                !.tasks[taskId].executionCount = @ + 1]
       IN IF taskId \in c.taskCallbacks
            THEN [connector |-> counted,
                  runtime |-> [r EXCEPT !.suspended[taskId] = @ + 1],
                  awaiting |-> TRUE,
                  response |-> Undef]
            ELSE [connector |-> [counted EXCEPT !.runningTasks = @ - 1],
                  runtime |-> r, awaiting |-> FALSE,
                  response |-> Success([taskId |-> taskId,
                                        executionCount |-> counted.tasks[taskId].executionCount])]

\* executeTask(taskId) from the end of its await on: the finally, then the
\* return or, when the callback threw, the catch
executeTaskResume(c, r, taskId, threw) ==
  [connector |-> [c EXCEPT !.runningTasks = @ - 1],
   runtime |-> [r EXCEPT !.suspended[taskId] = @ - 1],
   response |-> IF threw THEN Failure("Error ejecutando tarea: callback")
                ELSE Success([taskId |-> taskId])]

\* The callbacks of the tasks ids that are at their await
RECURSIVE SuspendedIn(_, _)
SuspendedIn(suspended, ids) ==
  IF ids = {} THEN 0
  ELSE LET id == CHOOSE any \in ids : TRUE
       IN suspended[id] + SuspendedIn(suspended, ids \ {id})

VARIABLES
  ruleIndex,    \* this.ruleIndex
  indexDirty,   \* this.indexDirty
  cachedRules,  \* this.cachedRules
  metrics,      \* this.metrics
  now,          \* the clock Date.now() reads
  last,         \* the last call: its arguments and what it returned
  probe,        \* one earlier evaluateRule call an observer has kept
  store,        \* the rows of the rules table of the one user
  requests,     \* the router's requests in flight, each at its await
  connector,    \* the fields of the TaskSchedulerMCPConnector
  runtime       \* node-schedule's jobs, the callbacks at their await, the file

vars == <<ruleIndex, indexDirty, cachedRules, metrics, now, last, probe, store, requests,
          connector, runtime>>

\* The callbacks at their await
Suspended == SuspendedIn(runtime.suspended, TaskIds)

\* No request in a slot
Idle == [kind |-> "idle"]

NoProbe == [kept |-> FALSE]

\* new DecisionEngine()
InitEngine ==
  /\ ruleIndex = EmptyIndex
  /\ indexDirty = TRUE
  /\ cachedRules = <<>>
  /\ metrics = EmptyMap
  /\ now = 0
  /\ last = [op |-> "new"]
  /\ probe = NoProbe
  /\ store = <<>>
  /\ requests = [slot \in 1..MaxRequests |-> Idle]

\* new DecisionEngine() and new TaskSchedulerMCPConnector()
Init ==
  /\ InitEngine
  /\ connector = TaskSchedulerMCPConnector(Undef)
  /\ runtime = NoRuntime

\* new TaskSchedulerMCPConnector(config)
InitScheduler ==
  /\ InitEngine
  /\ connector \in {TaskSchedulerMCPConnector(maxConcurrentTasks) :
                       maxConcurrentTasks \in ConfiguredLimits}
  /\ runtime = NoRuntime

\* The evaluations the metrics count, which the model bounds
TotalEvaluations(map) ==
  LET RECURSIVE Total(_)
      Total(ids) == IF ids = {} THEN 0
                    ELSE Let(CHOOSE k \in ids : TRUE,
                             LAMBDA id : map[id].evaluations
                                           + Let(ids \ {id}, LAMBDA others : Total(others)))
  IN Total(DOMAIN map)

EvaluationsOf(map, id) == IF id \in DOMAIN map THEN map[id].evaluations ELSE 0

RebuildIndex(rules) ==
  /\ ruleIndex' = rebuildIndex(rules)
  /\ cachedRules' = rules
  /\ indexDirty' = FALSE
  /\ last' = [op |-> "rebuildIndex", rules |-> rules]
  /\ UNCHANGED <<metrics, now, probe, store, requests, connector, runtime>>

InvalidateIndex ==
  /\ indexDirty' = TRUE
  /\ last' = [op |-> "invalidateIndex"]
  /\ UNCHANGED <<ruleIndex, cachedRules, metrics, now, probe, store, requests, connector, runtime>>

\* What a call of evaluateRule does to the engine
EvaluateRuleCall(rule, context, executionTime) ==
  \E call \in {evaluateRule(metrics, rule, context, executionTime, now)} :
     /\ TotalEvaluations(call.metrics) <= MaxEvaluations
     /\ metrics' = call.metrics
     /\ last' = [op |-> "evaluateRule", rule |-> rule, context |-> context,
                 outcome |-> call.outcome, result |-> call.result,
                 evaluationsBefore |-> EvaluationsOf(metrics, rule.id)]
     /\ UNCHANGED <<ruleIndex, indexDirty, cachedRules, now, store, requests, connector, runtime>>

EvaluateRule(rule, context, executionTime) ==
  /\ EvaluateRuleCall(rule, context, executionTime)
  /\ UNCHANGED probe

\* A call of evaluateRule under the observer, who keeps one call of the run, its
\* arguments and its result, to compare the later calls with
ObservedEvaluateRule(rule, context, executionTime) ==
  /\ EvaluateRuleCall(rule, context, executionTime)
  /\ \E keep \in BOOLEAN :
       probe' = IF keep /\ ~probe.kept
                  THEN [kept |-> TRUE, rule |-> rule, context |-> context,
                        result |-> last'.result]
                  ELSE probe

EvaluateRules(rules, context) ==
  LET evaluated == filterActive(
                     getCandidateRules(ruleIndex, indexDirty, cachedRules, context).candidates, 1)
  IN \E times \in [1..Len(evaluated) -> Durations] :
       \E call \in {evaluateRules(ruleIndex, indexDirty, cachedRules, metrics,
                                 rules, context, times, now)} :
          /\ TotalEvaluations(call.metrics) <= MaxEvaluations
          /\ ruleIndex' = call.ruleIndex
          /\ indexDirty' = call.indexDirty
          /\ cachedRules' = call.cachedRules
          /\ metrics' = call.metrics
          /\ last' = [op |-> "evaluateRules", rules |-> rules, context |-> context,
                      dirtyBefore |-> indexDirty, candidates |-> call.candidates,
                      results |-> call.results, stats |-> call.stats]
          /\ UNCHANGED <<now, probe, store, requests, connector, runtime>>

ValidateCondition(condition) ==
  /\ last' = [op |-> "validateCondition", condition |-> condition,
              result |-> validateCondition(condition)]
  /\ UNCHANGED <<ruleIndex, indexDirty, cachedRules, metrics, now, probe, store, requests, connector, runtime>>

\* new Tokenizer(input).tokenize(), as evaluateRule and validateCondition call it
Tokenize(input) ==
  /\ last' = [op |-> "tokenize", input |-> input, tokens |-> tokenize(input)]
  /\ UNCHANGED <<ruleIndex, indexDirty, cachedRules, metrics, now, probe, store, requests, connector, runtime>>

\* new Tokenizer(input), about to enter the loop of tokenize()
NewTokenizer(input) ==
  /\ last' = [op |-> "tokenizing", input |-> trim(input), pos |-> 1, tokens |-> <<>>]
  /\ UNCHANGED <<ruleIndex, indexDirty, cachedRules, metrics, now, probe, store, requests, connector, runtime>>

\* One iteration of the loop of tokenize()
TokenizerIteration ==
  /\ last.op = "tokenizing"
  /\ last.pos <= Len(last.input)
  /\ \E step \in {tokenizeStep(last.input, last.pos)} :
       last' = [last EXCEPT !.pos = step.pos, !.tokens = @ \o step.emit]
  /\ UNCHANGED <<ruleIndex, indexDirty, cachedRules, metrics, now, probe, store, requests, connector, runtime>>

\* The loop has ended: new Parser(tokens).parse() of the tokens returned
ParseTokens ==
  /\ last.op = "tokenizing"
  /\ last.pos > Len(last.input)
  /\ last' = [op |-> "parsed", input |-> last.input, tokens |-> last.tokens,
              result |-> parse(last.tokens)]
  /\ UNCHANGED <<ruleIndex, indexDirty, cachedRules, metrics, now, probe, store, requests, connector, runtime>>

\* new Parser(tokens).parse() of the tokens of input
Parse(input) ==
  /\ last' = [op |-> "parse", input |-> input, result |-> parseCondition(input)]
  /\ UNCHANGED <<ruleIndex, indexDirty, cachedRules, metrics, now, probe, store, requests, connector, runtime>>

\* getCandidateRules(context), the first step of evaluateRules
GetCandidateRules(context) ==
  /\ \E call \in {getCandidateRules(ruleIndex, indexDirty, cachedRules, context)} :
       /\ ruleIndex' = call.ruleIndex
       /\ indexDirty' = call.indexDirty
       /\ cachedRules' = call.cachedRules
       /\ last' = [op |-> "getCandidateRules", context |-> context,
                   candidates |-> call.candidates]
  /\ UNCHANGED <<metrics, now, probe, store, requests, connector, runtime>>

\* A call of evaluateRule among many: the first call for a rule may take up to
\* MaxDuration, the later ones take no measurable time
SampledEvaluateRule(rule, context, executionTime) ==
  /\ EvaluationsOf(metrics, rule.id) < SampleLimit(rule.id)
  /\ rule.id \in DOMAIN metrics => executionTime = 0
  /\ \E call \in {evaluateRule(metrics, rule, context, executionTime, now)} :
       /\ metrics' = call.metrics
       /\ last' = [op |-> "evaluateRule", rule |-> rule, context |-> context,
                   outcome |-> call.outcome, result |-> call.result,
                   evaluationsBefore |-> EvaluationsOf(metrics, rule.id)]
  /\ UNCHANGED <<ruleIndex, indexDirty, cachedRules, now, probe, store, requests, connector, runtime>>

GetSystemMetrics ==
  /\ last' = [op |-> "getSystemMetrics", result |-> getSystemMetrics(metrics)]
  /\ UNCHANGED <<ruleIndex, indexDirty, cachedRules, metrics, now, probe, store, requests, connector, runtime>>

ClearOldMetrics(maxAge) ==
  /\ metrics' = clearOldMetrics(metrics, maxAge, now)
  /\ last' = [op |-> "clearOldMetrics", maxAge |-> maxAge,
              toDelete |-> DOMAIN metrics \ DOMAIN metrics']
  /\ UNCHANGED <<ruleIndex, indexDirty, cachedRules, now, probe, store, requests, connector, runtime>>

\* Time passes between two calls
Tick ==
  /\ now < MaxNow
  /\ now' = now + 1
  /\ UNCHANGED <<ruleIndex, indexDirty, cachedRules, metrics, last, probe, store, requests, connector, runtime>>

\* db.createRule, db.updateRule, db.deleteRule, db.getRuleById and
\* db.getRulesByUserId on the rows of the one user
createRule(rows, rule) == Append(rows, rule)

updateRule(rows, id, updates) ==
  [i \in 1..Len(rows) |->
     IF rows[i].id = id
       THEN [f \in DOMAIN rows[i] |-> IF f \in DOMAIN updates THEN updates[f] ELSE rows[i][f]]
       ELSE rows[i]]

deleteRule(rows, id) == SelectSeq(rows, LAMBDA r : r.id # id)

getRuleById(rows, id) ==
  IF \E i \in 1..Len(rows) : rows[i].id = id
    THEN rows[CHOOSE i \in 1..Len(rows) : rows[i].id = id]
    ELSE Undef

getRulesByUserId(rows) == rows

\* Whether the request in a slot is a rule mutation
IsMutation(request) == request.kind \in {"create", "update", "delete", "toggle"}

\* rules.create up to the end of its await db.createRule
RulesCreate(slot, input) ==
  /\ requests[slot] = Idle
  /\ getRuleById(store, input.id) = Undef
  /\ \E validation \in {validateCondition(input.condition)} :
       IF ~validation.valid
         THEN /\ last' = [op |-> "rules.create", error |-> "BAD_REQUEST"]
              /\ UNCHANGED <<store, requests>>
         ELSE /\ store' = createRule(store, Rule(input.id, input.condition,
                                                 input.confidence, TRUE))
              /\ requests' = [requests EXCEPT ![slot] =
                                [kind |-> "create", at |-> "written", id |-> input.id]]
              /\ UNCHANGED last
  /\ UNCHANGED <<ruleIndex, indexDirty, cachedRules, metrics, now, probe, connector, runtime>>

\* rules.update with updates = {condition} up to the end of its await
\* db.updateRule
RulesUpdate(slot, id, condition) ==
  /\ requests[slot] = Idle
  /\ \E validation \in {validateCondition(condition)} :
       IF condition # "" /\ ~validation.valid
         THEN /\ last' = [op |-> "rules.update", error |-> "BAD_REQUEST"]
              /\ UNCHANGED <<store, requests>>
         ELSE /\ store' = updateRule(store, id, [condition |-> condition])
              /\ requests' = [requests EXCEPT ![slot] =
                                [kind |-> "update", at |-> "written", id |-> id]]
              /\ UNCHANGED last
  /\ UNCHANGED <<ruleIndex, indexDirty, cachedRules, metrics, now, probe, connector, runtime>>

\* rules.delete up to the end of its await db.deleteRule
RulesDelete(slot, id) ==
  /\ requests[slot] = Idle
  /\ store' = deleteRule(store, id)
  /\ requests' = [requests EXCEPT ![slot] =
                    [kind |-> "delete", at |-> "written", id |-> id]]
  /\ UNCHANGED <<ruleIndex, indexDirty, cachedRules, metrics, now, last, probe, connector, runtime>>

\* rules.toggle up to the end of its await db.getRuleById
RulesToggleRead(slot, id) ==
  /\ requests[slot] = Idle
  /\ \E rule \in {getRuleById(store, id)} :
       IF rule = Undef
         THEN /\ last' = [op |-> "rules.toggle", error |-> "NOT_FOUND"]
              /\ UNCHANGED requests
         ELSE /\ requests' = [requests EXCEPT ![slot] =
                                [kind |-> "toggle", at |-> "read", id |-> id,
                                 active |-> rule.active]]
              /\ UNCHANGED last
  /\ UNCHANGED <<ruleIndex, indexDirty, cachedRules, metrics, now, probe, store, connector, runtime>>

\* rules.toggle from there to the end of its await db.updateRule
RulesToggleWrite(slot) ==
  /\ requests[slot].kind = "toggle"
  /\ requests[slot].at = "read"
  /\ store' = updateRule(store, requests[slot].id, [active |-> ~requests[slot].active])
  /\ requests' = [requests EXCEPT ![slot] =
                    [kind |-> "toggle", at |-> "written", id |-> requests[slot].id]]
  /\ UNCHANGED <<ruleIndex, indexDirty, cachedRules, metrics, now, last, probe, connector, runtime>>

\* The end of a rule mutation: decisionEngine.invalidateIndex() and the return
RulesReturn(slot) ==
  /\ IsMutation(requests[slot])
  /\ requests[slot].at = "written"
  /\ indexDirty' = TRUE
  /\ last' = [op |-> "rules." \o requests[slot].kind, id |-> requests[slot].id]
  /\ requests' = [requests EXCEPT ![slot] = Idle]
  /\ UNCHANGED <<ruleIndex, cachedRules, metrics, now, probe, store, connector, runtime>>

\* decisions.evaluate up to the end of its await db.getRulesByUserId; quiet
\* tells that no rule mutation was in flight then
DecisionsEvaluateRead(slot, context) ==
  /\ requests[slot] = Idle
  /\ requests' = [requests EXCEPT ![slot] =
                    [kind |-> "evaluate", at |-> "read", rules |-> getRulesByUserId(store),
                     context |-> context,
                     quiet |-> \A other \in DOMAIN requests : ~IsMutation(requests[other])]]
  /\ UNCHANGED <<ruleIndex, indexDirty, cachedRules, metrics, now, last, probe, store, connector, runtime>>

\* decisions.evaluate from there: decisionEngine.evaluateRules(rules, input)
\* and the return
DecisionsEvaluateReturn(slot) ==
  /\ requests[slot].kind = "evaluate"
  /\ LET request == requests[slot]
         evaluated == filterActive(
                        getCandidateRules(ruleIndex, indexDirty, cachedRules,
                                          request.context).candidates, 1)
     IN \E times \in [1..Len(evaluated) -> Durations] :
          \E call \in {evaluateRules(ruleIndex, indexDirty, cachedRules, metrics,
                                    request.rules, request.context, times, now)} :
             /\ TotalEvaluations(call.metrics) <= MaxEvaluations
             /\ ruleIndex' = call.ruleIndex
             /\ indexDirty' = call.indexDirty
             /\ cachedRules' = call.cachedRules
             /\ metrics' = call.metrics
             /\ last' = [op |-> "decisions.evaluate", rules |-> request.rules,
                         context |-> request.context, quiet |-> request.quiet,
                         results |-> call.results, stats |-> call.stats]
  /\ requests' = [requests EXCEPT ![slot] = Idle]
  /\ UNCHANGED <<now, probe, store, connector, runtime>>

\* The engine behind the router, whose requests interleave at their awaits
NextRouter ==
  \/ \E slot \in 1..MaxRequests, input \in CreateInputs : RulesCreate(slot, input)
  \/ \E slot \in 1..MaxRequests, id \in RouterIds, condition \in UpdateConditions :
       RulesUpdate(slot, id, condition)
  \/ \E slot \in 1..MaxRequests, id \in RouterIds : RulesDelete(slot, id)
  \/ \E slot \in 1..MaxRequests, id \in RouterIds : RulesToggleRead(slot, id)
  \/ \E slot \in 1..MaxRequests : RulesToggleWrite(slot)
  \/ \E slot \in 1..MaxRequests : RulesReturn(slot)
  \/ \E slot \in 1..MaxRequests, context \in RouterContexts :
       DecisionsEvaluateRead(slot, context)
  \/ \E slot \in 1..MaxRequests : DecisionsEvaluateReturn(slot)

SpecRouter == Init /\ [][NextRouter]_vars

\* A call of a method that returns without an await of its own
SchedulerCall(op, argument, call) ==
  /\ call.runtime.serial <= MaxJobs
  /\ connector' = call.connector
  /\ runtime' = call.runtime
  /\ last' = [op |-> op, argument |-> argument, response |-> call.response]
  /\ UNCHANGED <<ruleIndex, indexDirty, cachedRules, metrics, now, probe, store, requests>>

ScheduleTask(task) ==
  \E call \in {scheduleTask(connector, runtime, task)} :
     SchedulerCall("scheduleTask", task, call)

EnableTask(taskId) ==
  \E call \in {enableTask(connector, runtime, taskId)} :
     SchedulerCall("enableTask", taskId, call)

DisableTask(taskId) ==
  \E call \in {disableTask(connector, runtime, taskId)} :
     SchedulerCall("disableTask", taskId, call)

CancelTask(taskId) ==
  \E call \in {cancelTask(connector, runtime, taskId)} :
     SchedulerCall("cancelTask", taskId, call)

\* registerTaskCallback(taskId, callback)
RegisterTaskCallback(taskId) ==
  /\ connector' = [connector EXCEPT !.taskCallbacks = @ \cup {taskId}]
  /\ last' = [op |-> "registerTaskCallback", argument |-> taskId]
  /\ UNCHANGED <<ruleIndex, indexDirty, cachedRules, metrics, now, probe, store, requests,
                 runtime>>

\* executeTask(taskId) up to its await or its return, called by hand (by
\* "call") or by a job of node-schedule (by "job")
ExecuteTaskBy(by, taskId) ==
  /\ Suspended < MaxCalls
  /\ taskId \in DOMAIN connector.tasks
       => connector.tasks[taskId].executionCount < MaxExecutions
  /\ \E call \in {executeTask(connector, runtime, taskId)} :
       /\ connector' = call.connector
       /\ runtime' = call.runtime
       /\ last' = [op |-> "executeTask", argument |-> taskId, by |-> by,
                   awaiting |-> call.awaiting, response |-> call.response]
  /\ UNCHANGED <<ruleIndex, indexDirty, cachedRules, metrics, now, probe, store, requests>>

ExecuteTask(taskId) == ExecuteTaskBy("call", taskId)

\* A scheduled job fires: async () => { await this.executeTask(taskId) }
JobFires(job) ==
  /\ job \in runtime.scheduled
  /\ ExecuteTaskBy("job", job.task)

\* A callback of taskId ends its await: it resolves or it throws
CallbackSettles(taskId, threw) ==
  /\ runtime.suspended[taskId] > 0
  /\ \E call \in {executeTaskResume(connector, runtime, taskId, threw)} :
       /\ connector' = call.connector
       /\ runtime' = call.runtime
       /\ last' = [op |-> "executeTask resumed", argument |-> taskId,
                   response |-> call.response]
  /\ UNCHANGED <<ruleIndex, indexDirty, cachedRules, metrics, now, probe, store, requests>>

\* The connector under callers of its methods, the jobs node-schedule fires
\* and the callbacks that settle
NextScheduler ==
  \/ \E task \in ScheduleInputs : ScheduleTask(task)
  \/ \E taskId \in TaskIds : EnableTask(taskId)
  \/ \E taskId \in TaskIds : DisableTask(taskId)
  \/ \E taskId \in TaskIds : CancelTask(taskId)
  \/ \E taskId \in TaskIds : RegisterTaskCallback(taskId)
  \/ \E taskId \in TaskIds : ExecuteTask(taskId)
  \/ \E job \in runtime.scheduled : JobFires(job)
  \/ \E taskId \in TaskIds, threw \in BOOLEAN : CallbackSettles(taskId, threw)

SpecScheduler == InitScheduler /\ [][NextScheduler]_vars

\* The engine under callers that rebuild, invalidate, evaluate and validate
Next ==
  \/ \E rules \in RuleLists : RebuildIndex(rules)
  \/ InvalidateIndex
  \/ \E rule \in Rules, context \in Contexts, executionTime \in Durations :
       EvaluateRule(rule, context, executionTime)
  \/ \E rules \in RuleLists, context \in Contexts : EvaluateRules(rules, context)
  \/ \E rule \in Rules : ValidateCondition(rule.condition)

Spec == Init /\ [][Next]_vars

\* The engine under callers that evaluate single rules and validate conditions
NextEval ==
  \/ \E rule \in EvalRules, context \in EvalContexts, executionTime \in Durations :
       EvaluateRule(rule, context, executionTime)
  \/ \E condition \in EvalConditions : ValidateCondition(condition)

SpecEval == Init /\ [][NextEval]_vars

\* The engine under callers that repeat evaluateRule calls among the other
\* operations, while time passes
NextProbe ==
  \/ \E rules \in ProbeLists : RebuildIndex(rules)
  \/ InvalidateIndex
  \/ \E rule \in ProbeRules, context \in ProbeContexts, executionTime \in Durations :
       ObservedEvaluateRule(rule, context, executionTime)
  \/ \E rules \in ProbeLists, context \in ProbeContexts : EvaluateRules(rules, context)
  \/ \E maxAge \in 0..MaxNow : ClearOldMetrics(maxAge)
  \/ Tick

SpecProbe == Init /\ [][NextProbe]_vars

\* The engine under callers that evaluate many times and read the system metrics
NextMetrics ==
  \/ \E rule \in MetricsRules, executionTime \in 0..MaxDuration :
       SampledEvaluateRule(rule, CtxTen, executionTime)
  \/ GetSystemMetrics

SpecMetrics == Init /\ [][NextMetrics]_vars

\* The engine under callers that evaluate, index and clear the old metrics as
\* time passes
NextClear ==
  \/ \E rule \in MetricsRules : RebuildIndex(<<rule>>)
  \/ \E rule \in MetricsRules, executionTime \in Durations :
       EvaluateRule(rule, CtxTen, executionTime)
  \/ \E maxAge \in Ages : ClearOldMetrics(maxAge)
  \/ Tick

SpecClear == Init /\ [][NextClear]_vars

\* The index of the engine: rebuilt, invalidated and asked for candidates
NextIndex ==
  \/ \E rules \in IndexLists : RebuildIndex(rules)
  \/ InvalidateIndex
  \/ \E context \in IndexContexts : GetCandidateRules(context)

SpecIndex == Init /\ [][NextIndex]_vars

\* The tokenizer iteration by iteration, then the parser
NextLoop ==
  \/ \E input \in LoopInputs : NewTokenizer(input)
  \/ TokenizerIteration
  \/ ParseTokens

SpecLoop == Init /\ [][NextLoop]_vars

\* The tokenizer and the parser of the engine taken alone
NextParse ==
  \/ \E input \in ParserInputs : Tokenize(input)
  \/ \E input \in ParserInputs : Parse(input)

SpecParse == Init /\ [][NextParse]_vars

\* The engine under callers that index rule lists and evaluate them in bulk
NextBulk ==
  \/ \E rules \in BulkLists : RebuildIndex(rules)
  \/ InvalidateIndex
  \/ \E rules \in BulkLists, context \in BulkContexts : EvaluateRules(rules, context)

SpecBulk == Init /\ [][NextBulk]_vars

(***************************************************************************)
(* PROPERTIES                                                              *)
(***************************************************************************)

\* message is a part of text
Carries(text, message) ==
  \E i \in 1..(Len(text) - Len(message) + 1) :
    SubSeq(text, i, i + Len(message) - 1) = message

\* rule is an element of rules
InList(rule, rules) == \E i \in 1..Len(rules) : rules[i] = rule

\* C1: evaluateRule never raises to its caller: every call returns a
\* DecisionResult, and when the tokenize/parse/evaluate pipeline throws, the
\* result has matched = false and a reasoning that carries the error message.
C1_NeverRaises ==
  last.op = "evaluateRule" =>
    /\ last.outcome = "returned"
    /\ LET run == runPipeline(last.rule, last.context)
       IN ~run.ok => /\ last.result.matched = FALSE
                     /\ Carries(last.result.reasoning, run.error)

\* An evaluateRule call has returned although its condition does not parse
C1_ParseErrorReturned ==
  /\ last.op = "evaluateRule"
  /\ ~parseCondition(last.rule.condition).ok
  /\ last.outcome = "returned"

\* C2 (as claimed): a rule that matches a context is among the candidates
\* for that context on an index built from a rule list that contains the rule.
\* The engine's index was built from cachedRules; the rule is taken active.
C2_CandidateSoundness ==
  (/\ last.op = "evaluateRule"
   /\ last.result.matched
   /\ last.rule.active
   /\ InList(last.rule, cachedRules))
    => InList(last.rule,
              getCandidateRules(ruleIndex, indexDirty, cachedRules, last.context).candidates)

\* C3 (as claimed): no result of evaluateRules carries the id of a rule that
\* is inactive in the rule list passed to the call.
C3_InactiveNeverReturned ==
  last.op = "evaluateRules" =>
    \A i \in 1..Len(last.results), j \in 1..Len(last.rules) :
      last.rules[j].id = last.results[i].ruleId => last.rules[j].active

\* C4 (as claimed): an evaluateRules call on a dirty index rebuilds the index
\* from the rule list passed to the call, so that its candidates are those of
\* that list.
C4_RebuildsFromPassedRules ==
  (last.op = "evaluateRules" /\ last.dirtyBefore) =>
    last.candidates = candidatesIn(rebuildIndex(last.rules), last.context)

\* C5 (as claimed): every evaluateRule call is counted: afterwards the rule's
\* metrics entry exists and its evaluations are one more than before.
C5_EveryCallCounted ==
  last.op = "evaluateRule" =>
    /\ last.rule.id \in DOMAIN metrics
    /\ metrics[last.rule.id].evaluations = last.evaluationsBefore + 1

\* action.type is 'delete' or file.size is greater than 1048576
ScenarioHolds(context) ==
  LET type == WalkPath(<<"action", "type">>, 1, context)
      size == WalkPath(<<"file", "size">>, 1, context)
  IN \/ StrictEquals(type, Str("delete"))
     \/ (size.t = "number" /\ size.v > 1048576)

\* C6 (as claimed): with the scenarios' condition, evaluateRule matches
\* exactly the contexts whose action.type is 'delete' or whose file.size is
\* greater than 1048576: scenarios A and B match, scenario C does not.
C6_Scenarios ==
  (/\ last.op = "evaluateRule"
   /\ last.rule.condition = ScenarioCondition
   /\ last.context \in {ScenarioA, ScenarioB, ScenarioC})
    => last.result.matched = ScenarioHolds(last.context)

\* C7 (as claimed): with the condition "x > 5", evaluateRule matches when the
\* context's x is a number greater than 5 and does not match when it is a
\* number that is not.
C7_NumericLiteral ==
  (/\ last.op = "evaluateRule"
   /\ last.rule.condition = "x > 5"
   /\ WalkPath(<<"x">>, 1, last.context).t = "number")
    => last.result.matched = (WalkPath(<<"x">>, 1, last.context).v > 5)

\* The parentheses of text from position i on balance, depth of them being open
RECURSIVE Balanced(_, _, _)
Balanced(text, i, depth) ==
  IF i > Len(text) THEN depth = 0
  ELSE IF Ch(text, i) = "(" THEN Balanced(text, i + 1, depth + 1)
  ELSE IF Ch(text, i) = ")" THEN depth > 0 /\ Balanced(text, i + 1, depth - 1)
  ELSE Balanced(text, i + 1, depth)

\* C8 (as claimed): validateCondition returns valid:false with an error
\* message for every condition whose parentheses are unbalanced, an unclosed
\* '(' as well as a ')' that closes nothing.
C8_UnbalancedRejected ==
  (last.op = "validateCondition" /\ ~Balanced(last.condition, 1, 0)) =>
    /\ ~last.result.valid
    /\ "error" \in DOMAIN last.result

\* C9 (as claimed): validateCondition returns valid:true for every condition
\* derived from the grammar of conditions.
C9_GrammarAccepted ==
  (last.op = "validateCondition" /\ last.condition \in GrammarConditions) =>
    last.result.valid

\* C10: two evaluateRule calls with the same rule and the same context return
\* the same matched, confidence and behavior, whatever ran before or between
\* them.
C10_Determinism ==
  (/\ probe.kept
   /\ last.op = "evaluateRule"
   /\ last.rule = probe.rule
   /\ last.context = probe.context)
    => /\ last.result.matched = probe.result.matched
       /\ last.result.confidence = probe.result.confidence
       /\ last.result.behavior = probe.result.behavior

\* A call is repeated at a later time on an engine whose index was rebuilt
\* and whose metrics of the rule, which the kept call had counted, were cleared
C10_RepeatedLater ==
  /\ probe.kept
  /\ last.op = "evaluateRule"
  /\ last.rule = probe.rule
  /\ last.context = probe.context
  /\ probe.result.matched
  /\ last.evaluationsBefore = 0
  /\ last.result.timestamp # probe.result.timestamp
  /\ ~indexDirty

\* C11: the results of evaluateRules hold matched results only, in the order
\* of non-increasing confidence.
C11_MatchesSortedByConfidence ==
  last.op = "evaluateRules" =>
    /\ \A i \in 1..Len(last.results) : last.results[i].matched
    /\ \A i \in 1..(Len(last.results) - 1) :
         last.results[i].confidence >= last.results[i + 1].confidence

\* Two candidates matched, and the one fetched first has the lower confidence
\* and is returned second
C11_ReorderedResults ==
  /\ last.op = "evaluateRules"
  /\ Len(last.results) = 2
  /\ last.results[1].confidence > last.results[2].confidence
  /\ last.candidates[1].id = last.results[2].ruleId

\* C12: in the stats of evaluateRules(rules, context), totalRules is the number
\* of rules passed, activeRules the number of active ones among them,
\* candidateRules the number of candidates fetched from the index and
\* matchedRules the length of results.
C12_StatsCounts ==
  last.op = "evaluateRules" =>
    /\ last.stats.totalRules = Len(last.rules)
    /\ last.stats.activeRules = Cardinality({i \in 1..Len(last.rules) : last.rules[i].active})
    /\ last.stats.candidateRules = Len(last.candidates)
    /\ last.stats.matchedRules = Len(last.results)

\* The counts of a call differ: of the two rules passed one is active, while
\* the index, built from an earlier list, gave two candidates
C12_DistinctCounts ==
  /\ last.op = "evaluateRules"
  /\ last.stats.totalRules = 2
  /\ last.stats.activeRules = 1
  /\ last.stats.candidateRules = 2
  /\ last.stats.matchedRules = 2

\* C13 (as claimed): the stats of evaluateRules have a field averageConfidence,
\* a number not below 0.
C13_AverageConfidence ==
  last.op = "evaluateRules" =>
    /\ "averageConfidence" \in DOMAIN last.stats
    /\ last.stats.averageConfidence >= 0

\* The units with the factors claimed for them
ClaimedUnits ==
  {[suffix |-> "", factor |-> 1], [suffix |-> "MB", factor |-> 1048576],
   [suffix |-> "KB", factor |-> 1024], [suffix |-> "min", factor |-> 60000],
   [suffix |-> "s", factor |-> 1000]}

C19_ConnectivesInAnyCase ==
  last.op = "tokenize" =>
    /\ \A kw \in AndSpellings :
         last.input = "a " \o kw \o " b" =>
           last.tokens = <<Token("PATH", "a"), Token("LOGICAL", "and"), Token("PATH", "b")>>
    /\ \A kw \in OrSpellings :
         last.input = "a " \o kw \o " b" =>
           last.tokens = <<Token("PATH", "a"), Token("LOGICAL", "or"), Token("PATH", "b")>>

\* The trees the claim gives
IdA == Identifier("a")

IdB == Identifier("b")

IdC == Identifier("c")

ClaimedTrees ==
  [c \in PrecedenceInputs |->
     CASE c = "a or b and c" -> BinaryOp("or", IdA, BinaryOp("and", IdB, IdC))
       [] c = "a and b or c" -> BinaryOp("or", BinaryOp("and", IdA, IdB), IdC)
       [] c = "a or b or c" -> BinaryOp("or", BinaryOp("or", IdA, IdB), IdC)
       [] c = "a and b and c" -> BinaryOp("and", BinaryOp("and", IdA, IdB), IdC)
       [] c = "(a or b) and c" -> BinaryOp("and", BinaryOp("or", IdA, IdB), IdC)
       [] c = "a and (b or c)" -> BinaryOp("and", IdA, BinaryOp("or", IdB, IdC))]

\* C20: 'and' binds tighter than 'or', both group to the left, and a
\* parenthesized group is one operand.
C20_PrecedenceAndAssociativity ==
  (last.op = "parse" /\ last.input \in PrecedenceInputs) =>
    /\ last.result.ok
    /\ last.result.node = ClaimedTrees[last.input]
    /\ last.result.pos = Len(tokenize(last.input)) + 1

\* "a or b or c" has been parsed to a tree
C20_TwoOrsParsed ==
  /\ last.op = "parse"
  /\ last.input = "a or b or c"
  /\ last.result.ok

\* C15: whenever a rule has a metrics entry, getSystemMetrics returns
\* p50ExecutionTime <= p95ExecutionTime <= p99ExecutionTime, each the sample
\* of rank floor(n * p) among the n samples of all rules pooled together.
C15_PercentileOrdering ==
  (last.op = "getSystemMetrics" /\ DOMAIN metrics # {}) =>
    LET pooled == flatTimes(metrics, DOMAIN metrics)
        n == Len(pooled)
        HasRank(v, index) ==
          /\ Cardinality({j \in 1..n : pooled[j] < v}) <= index
          /\ index < Cardinality({j \in 1..n : pooled[j] <= v})
    IN /\ last.result.p50ExecutionTime <= last.result.p95ExecutionTime
       /\ last.result.p95ExecutionTime <= last.result.p99ExecutionTime
       /\ HasRank(last.result.p50ExecutionTime, (n * 50) \div 100)
       /\ HasRank(last.result.p95ExecutionTime, (n * 95) \div 100)
       /\ HasRank(last.result.p99ExecutionTime, (n * 99) \div 100)

\* The metrics of two rules have been read with p95 below p99
C15_PooledSpread ==
  /\ last.op = "getSystemMetrics"
  /\ Cardinality(DOMAIN metrics) = 2
  /\ last.result.p95ExecutionTime < last.result.p99ExecutionTime

\* C16: every executionTimes buffer holds at most 100 samples; an evaluation
\* that is recorded appends its duration, and when the buffer is full it
\* evicts exactly the oldest sample.
C16_RingBuffer ==
  [][\A id \in DOMAIN metrics' :
       LET before == IF id \in DOMAIN metrics THEN metrics[id].executionTimes ELSE <<>>
           after == metrics'[id].executionTimes
       IN /\ Len(after) <= 100
          /\ metrics'[id].evaluations # EvaluationsOf(metrics, id) =>
               after = Append(IF Len(before) = 100 THEN Tail(before) ELSE before,
                              last'.result.executionTime)]_vars

\* A rule has been evaluated more than 100 times and its buffer is full
C16_BufferFull ==
  \E id \in DOMAIN metrics :
    metrics[id].evaluations > 100 /\ Len(metrics[id].executionTimes) = 100

\* C17: clearOldMetrics(maxAge) removes the entries whose lastUsed is earlier
\* than now - maxAge and no other, keeps the others with their fields
\* unchanged, and leaves the index and the dirty flag alone.
C17_ClearOldMetricsFrame ==
  [][(\E maxAge \in Ages : ClearOldMetrics(maxAge)) =>
       /\ DOMAIN metrics' =
            {id \in DOMAIN metrics : ~(metrics[id].lastUsed < now - last'.maxAge)}
       /\ \A id \in DOMAIN metrics' : metrics'[id] = metrics[id]
       /\ UNCHANGED <<ruleIndex, indexDirty, cachedRules>>]_vars

\* clearOldMetrics has removed the entry of one rule and kept another
C17_OneRemovedOneKept ==
  /\ last.op = "clearOldMetrics"
  /\ last.toDelete # {}
  /\ DOMAIN metrics # {}

\* Whether evaluating the rule on the context alone gives matched = true
MatchesAlone(rule, context) ==
  evaluateRule(<<>>, rule, context, 0, 0).result.matched

C21_LeftoverRejected ==
  (last.op = "validateCondition" /\ last.condition \in LeftoverConditions) =>
    /\ ~last.result.valid
    /\ "error" \in DOMAIN last.result

\* C22 (as claimed): the dirty flag is set only by invalidateIndex() and
\* cleared only by a rebuild; an evaluateRules call entered while the flag is
\* dirty returns with the flag clean; evaluateRule, validateCondition,
\* getSystemMetrics and clearOldMetrics leave the flag and the buckets
\* unchanged.
C22_DirtyFlag ==
  [][/\ (~indexDirty /\ indexDirty') => last'.op = "invalidateIndex"
     /\ (indexDirty /\ ~indexDirty') => last'.op \in {"rebuildIndex", "evaluateRules"}
     /\ (last'.op = "evaluateRules" /\ last'.dirtyBefore) => ~indexDirty'
     /\ last'.op \in {"evaluateRule", "validateCondition", "getSystemMetrics",
                      "clearOldMetrics"}
          => UNCHANGED <<indexDirty, ruleIndex>>]_vars

\* The rules of a bucket and of the buckets of a map
RulesOfBucket(bucket) == {bucket[i] : i \in 1..Len(bucket)}

RulesOfMap(map) == UNION {RulesOfBucket(map[key]) : key \in DOMAIN map}

\* C23: immediately after rebuildIndex(rules), every active rule of rules is
\* in a byActionType, byFileExtension or global bucket, every active rule
\* with no action-type or file-extension term is in global, and every rule of
\* every bucket (byCategory included) is an active rule of rules.
C23_IndexAfterRebuild ==
  last.op = "rebuildIndex" =>
    LET candidateBuckets ==
          RulesOfMap(ruleIndex.byActionType) \cup RulesOfMap(ruleIndex.byFileExtension)
            \cup RulesOfBucket(ruleIndex.global)
    IN /\ \A i \in 1..Len(last.rules) :
            last.rules[i].active =>
              /\ last.rules[i] \in candidateBuckets
              /\ LET terms == extractIndexTerms(last.rules[i].condition)
                 IN (terms.actionTypes = <<>> /\ terms.fileExtensions = <<>>)
                      => last.rules[i] \in RulesOfBucket(ruleIndex.global)
       /\ \A rule \in candidateBuckets \cup RulesOfMap(ruleIndex.byCategory) :
            rule.active /\ InList(rule, last.rules)

\* A list with an inactive rule and a rule indexed by action type has been
\* indexed
C23_RebuiltWithInactive ==
  /\ last.op = "rebuildIndex"
  /\ \E i \in 1..Len(last.rules) : ~last.rules[i].active
  /\ DOMAIN ruleIndex.byActionType # {}

\* The rules an index holds under the key a context value gives, if it gives one
RulesUnder(map, value) ==
  IF value.t = "string" /\ value.v \in DOMAIN map THEN RulesOfBucket(map[value.v]) ELSE {}

\* C24: the candidates for a context are exactly the rules indexed under its
\* action.type, the rules indexed under its file.extension and the rules of
\* the global bucket, each of them once.
C24_CandidatesAreTheUnion ==
  last.op = "getCandidateRules" =>
    /\ RulesOfBucket(last.candidates) =
         RulesUnder(ruleIndex.byActionType, Member(Member(last.context, "action"), "type"))
           \cup RulesUnder(ruleIndex.byFileExtension,
                           Member(Member(last.context, "file"), "extension"))
           \cup RulesOfBucket(ruleIndex.global)
    /\ \A i, j \in 1..Len(last.candidates) :
         last.candidates[i] = last.candidates[j] => i = j

\* The candidates were fetched for a context with an action type and a file
\* extension from an index that holds a rule under both and a rule twice
\* under the action type
C24_IndexedSeveralTimes ==
  /\ last.op = "getCandidateRules"
  /\ last.context = CtxRemoveTs
  /\ Len(last.candidates) = 3
  /\ Len(ruleIndex.byActionType["rm"]) = 3
  /\ DOMAIN ruleIndex.byFileExtension = {".ts"}

\* The matches counted for a rule, none without an entry
MatchesOf(map, id) == IF id \in DOMAIN map THEN map[id].matches ELSE 0

\* C25: a metrics entry is removed only by clearOldMetrics; while it exists
\* its evaluations and matches never decrease, matches grows by one exactly on
\* an evaluation of the rule whose result is matched = true, and
\* 0 <= matches <= evaluations in every state.
C25_MetricsCounters ==
  /\ [](\A id \in DOMAIN metrics :
          0 <= metrics[id].matches /\ metrics[id].matches <= metrics[id].evaluations)
  /\ [][/\ \A id \in DOMAIN metrics \ DOMAIN metrics' : last'.op = "clearOldMetrics"
        /\ \A id \in DOMAIN metrics' :
             /\ metrics'[id].evaluations >= EvaluationsOf(metrics, id)
             /\ metrics'[id].matches - MatchesOf(metrics, id) =
                  IF /\ metrics'[id].evaluations # EvaluationsOf(metrics, id)
                     /\ last'.op = "evaluateRule"
                     /\ last'.rule.id = id
                     /\ last'.result.matched
                    THEN 1 ELSE 0]_vars

\* One rule has been evaluated with a match and another without
C25_MatchedAndUnmatched ==
  \E a, b \in DOMAIN metrics :
    /\ metrics[a].matches = 1
    /\ metrics[b].matches = 0
    /\ metrics[b].evaluations = 1

\* C26 (as claimed): every result of evaluateRules(rules, context) belongs to
\* a rule that is an element of rules.
C26_ResultsFromPassedRules ==
  last.op = "evaluateRules" =>
    \A j \in 1..Len(last.results) :
      \E i \in 1..Len(last.rules) : last.rules[i].id = last.results[j].ruleId

\* C27 (as claimed): in the stats of every evaluateRules call with a
\* non-empty rule list, matchedRules <= candidateRules <= activeRules <=
\* totalRules, and the index efficiency is not negative.
C27_StatsOrdering ==
  (last.op = "evaluateRules" /\ Len(last.rules) > 0) =>
    /\ last.stats.matchedRules <= last.stats.candidateRules
    /\ last.stats.candidateRules <= last.stats.activeRules
    /\ last.stats.activeRules <= last.stats.totalRules
    /\ SubSeq(last.stats.indexEfficiency, 1, 1) # "-"

\* A parse function called at position p of tokens fails or leaves a position
\* after p, at most one past the tokens
Consumes(result, tokens, p) == result.ok => (result.pos > p /\ result.pos <= Len(tokens) + 1)

\* C28: every iteration of the tokenizer loop strictly advances the position,
\* which stays within two of the end of the input; an unterminated quoted
\* string takes the rest of the input as its value, with no error; every
\* parse function consumes a token or fails.
C28_Termination ==
  /\ (last.op = "tokenizing" /\ last.pos <= Len(last.input)) =>
       LET step == tokenizeStep(last.input, last.pos)
       IN step.pos > last.pos /\ step.pos <= Len(last.input) + 2
  /\ (last.op = "parsed" /\ last.input \in UnterminatedInputs) =>
       LET open == CHOOSE p \in 1..Len(last.input) :
                     /\ Ch(last.input, p) \in {"'", "\""}
                     /\ \A q \in 1..(p - 1) : Ch(last.input, q) \notin {"'", "\""}
       IN last.tokens[Len(last.tokens)] =
            Token("VALUE", SubSeq(last.input, open + 1, Len(last.input)))
  /\ last.op = "parsed" =>
       \A p \in 1..(Len(last.tokens) + 1) :
         /\ Consumes(parsePrimary(last.tokens, p), last.tokens, p)
         /\ Consumes(parseComparison(last.tokens, p), last.tokens, p)
         /\ Consumes(parseAnd(last.tokens, p), last.tokens, p)
         /\ Consumes(parseOr(last.tokens, p), last.tokens, p)

\* The loop has gone over a character no branch takes and over a quoted
\* string without its closing quote, and the tokens have been parsed
C28_LoopEnded ==
  /\ last.op = "parsed"
  /\ last.input = "x @ 'ab"
  /\ last.tokens = <<Token("PATH", "x"), Token("VALUE", "ab")>>
  /\ last.result.ok

\* C29: after any sequence of scheduleTask, enableTask, disableTask and
\* cancelTask calls, the connector holds a job for a task id exactly when a
\* task with that id exists and is enabled, and node-schedule fires no job of
\* a task that is disabled, replaced as disabled, or cancelled.
C29_JobHeldIffEnabled ==
  /\ \A taskId \in TaskIds :
       taskId \in DOMAIN connector.jobs
         <=> (taskId \in DOMAIN connector.tasks /\ connector.tasks[taskId].enabled)
  /\ \A job \in runtime.scheduled :
       job.task \in DOMAIN connector.tasks /\ connector.tasks[job.task].enabled

\* C30: under any interleaving of executeTask calls whose callbacks suspend,
\* the callbacks at their await never outnumber maxConcurrentTasks and
\* runningTasks counts exactly them (so it is 0 once all have settled), and a
\* call that arrives at the limit returns success: false, starts no callback
\* and leaves the connector, the executionCount of the task included, as it
\* was.
C30_ConcurrencyLimit ==
  /\ [](/\ Suspended <= connector.maxConcurrentTasks
        /\ connector.runningTasks = Suspended)
  /\ [][(/\ last'.op = "executeTask"
         /\ connector.runningTasks >= connector.maxConcurrentTasks)
          => /\ ~last'.awaiting
             /\ ~last'.response.success
             /\ connector' = connector
             /\ runtime' = runtime]_vars

\* A job fires while the only callback the limit allows is at its await: the
\* call is turned down and the task has still been executed once
C30_TurnedDownAtTheLimit ==
  /\ last.op = "executeTask"
  /\ last.by = "job"
  /\ ~last.awaiting
  /\ ~last.response.success
  /\ connector.maxConcurrentTasks = 1
  /\ connector.runningTasks = 1
  /\ runtime.suspended["t1"] = 1
  /\ connector.tasks["t1"].executionCount = 1
====
